---------------------------- MODULE Spec2Model ----------------------------
(***************************************************************************)
(* Asynchronous policy inference server (lerobot async_inference,          *)
(* policy_server.py): the gRPC handlers Ready, SendPolicyInstructions,     *)
(* SendObservations and GetActions running on the server's thread pool,    *)
(* the depth-1 observation inbox, the set of predicted timesteps and the   *)
(* inference pipeline that turns an observation into a timed action chunk. *)
(*                                                                         *)
(* Every handler is a thread of the pool; a step of the model is one       *)
(* statement (or one blocking call) of a handler, so that handlers         *)
(* interleave as the threads of the pool do.                               *)
(***************************************************************************)
EXTENDS Integers, Sequences, FiniteSets, TLC

(* ------------------------------ bounds -------------------------------- *)

\* handlers that run at the same time (at most max_workers of them)
MaxHandlers == 2
\* observations the clients send in one run
MaxSends == 2
\* client timesteps are 0..MaxTimestep
MaxTimestep == 1
\* longest time an inference takes, in milliseconds
MaxInferenceTime == 35
\* largest real_delay measured at the end of an inference, in control ticks
MaxDelay == 3
\* rtc_config.execution_horizon of the configurations the clients send
execution_horizon == 1
\* length of the chunk the policy produces (policy.config.chunk_size)
chunk_size == 3
\* calls the pool starts in one run of the lock-by-lock specifications
MaxRPCs == 5
\* num_steps of the policy configurations: 1..MaxNumSteps (SmolVLA's default
\* is 10) and one large value, LargeNumSteps
MaxNumSteps == 10
LargeNumSteps == 5859

(* ------------------------- program constants --------------------------- *)

\* futures.ThreadPoolExecutor(max_workers=4)
max_workers == 4
\* Queue(maxsize=1)
maxsize == 1
\* --fps=30, environment_dt = 1/fps; time is counted in milliseconds
fps == 30
environment_dt == 1000 \div fps
\* --inference_latency=0.033, in milliseconds
inference_latency == 33
\* --obs_queue_timeout=1, in milliseconds
obs_queue_timeout == 1000

(* ------------------------------- data ---------------------------------- *)

Handlers == 1..(IF MaxHandlers < max_workers THEN MaxHandlers ELSE max_workers)
Timesteps == 0..MaxTimestep
\* the absence of an observation (Python None)
None == [id |-> 0, timestep |-> -1, must_go |-> FALSE]

\* TimedObservation: id is the identity of the object (the n-th observation sent)
TimedObservation(n, k, mg) == [id |-> n, timestep |-> k, must_go |-> mg]

\* TimedObservation.get_timestamp(): the client stamps its n-th observation
\* at n * environment_dt
get_timestamp(o) == o.id * environment_dt

\* responses of a handler
NoResponse == [kind |-> "none", data |-> <<>>]
Empty == [kind |-> "empty", data |-> <<>>]
Raised == [kind |-> "error", data |-> <<>>]
Actions(chunk) == [kind |-> "actions", data |-> chunk]

\* handler-local flags of SendObservations
NoFlags == [accepted |-> FALSE, similar |-> FALSE, saw_full |-> FALSE, stored |-> FALSE]

Min(a, b) == IF a < b THEN a ELSE b

\* mutant of SUPPORTED_POLICIES: every kind is let through
SUPPORTED_POLICIES_any == {"act", "smolvla", "unknown"}

\* SUPPORTED_POLICIES of async_inference/constants.py
SUPPORTED_POLICIES == {"act", "smolvla"}

\* RTCConfig: rtc_config is None, or has enabled False or True
NoRTCConfig == [present |-> FALSE, enabled |-> FALSE]
RTCConfig(enabled) == [present |-> TRUE, enabled |-> enabled]

\* RemotePolicyConfig: the fields of the request that the server installs
RemotePolicyConfig(kind, rtc, apc) ==
    [policy_type |-> kind, rtc_config |-> rtc, actions_per_chunk |-> apc,
     device |-> "cuda", lerobot_features |-> "features"]
NoRequest == [policy_type |-> "None", rtc_config |-> NoRTCConfig, actions_per_chunk |-> 0,
              device |-> "None", lerobot_features |-> "None"]

\* the requests the clients send
Requests == {RemotePolicyConfig(kind, rtc, apc) :
                kind \in {"smolvla", "unknown"},
                rtc \in {NoRTCConfig, RTCConfig(FALSE), RTCConfig(TRUE)},
                apc \in 1..chunk_size}

\* ActionQueue(rtc_config): a queue with nothing pending and no leftover
\* (an empty leftover stands for None); exists = FALSE is Python None
NoActionQueue == [exists |-> FALSE, committed_index |-> 0, pending |-> <<>>, leftover |-> <<>>]
ActionQueue(cfg) == [exists |-> TRUE, committed_index |-> 0, pending |-> <<>>, leftover |-> <<>>]

VARIABLES
    observation_queue,     \* self.observation_queue: content of the current Queue(maxsize=1)
    old_queues,            \* the replaced queue objects that handlers still block on
    predicted_timesteps,   \* self._predicted_timesteps
    last_processed_obs,    \* self.last_processed_obs
    shutdown_event,        \* self.shutdown_event.is_set()
    policy,                \* self.policy: "none" until SendPolicyInstructions loads one
    actions_per_chunk,     \* self.actions_per_chunk (0 stands for None)
    rpc,                   \* rpc[h]: the method handler h runs, "idle" when h is free
    pc,                    \* pc[h]: where handler h is in its method
    obs,                   \* obs[h]: the observation h received / took from the inbox
    resp,                  \* resp[h]: what h returns to its caller
    flags,                 \* flags[h]: locals of h
    nsent,                 \* number of observations sent so far
    sent_timesteps,        \* the timesteps of the observations sent so far
    first_plain,           \* first_plain[k]: the first observation sent with timestep k
                           \* and must_go = False (0: none yet)
    engine_log             \* the observations passed to _predict_action_chunk, in order,
                           \* each with the outcome of its inference

\* one GetActions call against the clock (specification SpecTiming)
VARIABLES
    ga_phase,              \* where the call is: "idle", "get", "predict", "sleep", "done"
    ga_now,                \* time.perf_counter() - getactions_starts
    ga_waited,             \* the time the call spent inside observation_queue.get
    ga_wake,               \* the time at which time.sleep returns
    ga_inbox,              \* whether the inbox holds an observation
    ga_resp                \* the kind of the response

timing == <<ga_phase, ga_now, ga_waited, ga_wake, ga_inbox, ga_resp>>

\* the configuration installed by SendPolicyInstructions and the RTC
\* components (specification SpecSerial: one client, one call at a time)
VARIABLES
    rtc_config,            \* self.rtc_config
    device,                \* self.device
    policy_type,           \* self.policy_type
    lerobot_features,      \* self.lerobot_features
    rtc_processor,         \* self.rtc_processor
    rtc_action_queue,      \* self.rtc_action_queue
    last_call              \* the last call made: its method, its request, its response,
                           \* the real_delay measured by its inference

setup == <<rtc_config, device, policy_type, lerobot_features, rtc_processor,
           rtc_action_queue, last_call>>

\* the inferences in progress on a server with an ActionQueue (specification
\* SpecRTC: the handlers of the pool and the RTC components)
VARIABLES
    snapshots              \* snapshots[h]: "none" while h is not between the
                           \* action_index_before_inference it reads and its merge,
                           \* "held" while the ActionQueue it read is as it was,
                           \* "overwritten" once the merge of another inference
                           \* or a Ready wrote to self.rtc_action_queue or
                           \* replaced it, "reconfigured" once a
                           \* SendPolicyInstructions replaced it

\* the observations taken since the last reset (specification SpecReset: the
\* handlers of the pool and what they took from the inbox)
VARIABLES
    taken_since_reset      \* the timesteps of the observations GetActions handlers
                           \* took from a queue since the last time _reset_server
                           \* emptied self._predicted_timesteps (since __init__
                           \* before the first Ready)

inference == <<snapshots, taken_since_reset>>

\* an XboxTeleop object and the loop of teleoperate_xbox_hybrid.py
\* (specifications SpecXbox and SpecHybrid)
VARIABLES
    xbox,                  \* the XboxTeleop object: initialized, arm_positions,
                           \* base_velocities, arm_speed_multiplier
    controller,            \* what the controller reads: axes, hat, buttons
    xbox_action,           \* the action returned by the last get_action
    previous_action,       \* the action returned by the call before
    ncalls,                \* number of get_action calls made
    hybrid_action,         \* the action the hybrid loop sent with robot.send_action
    hybrid_running         \* whether the hybrid loop is still iterating

\* the loop of teleoperate_xbox_controller.py (specification SpecController)
VARIABLES
    button_state,          \* joystick.button_state['BTN_NORTH'], the B button
    analog_state,          \* joystick.analog_state
    emergency_stopped,     \* the local emergency_stopped of main
    base_action,           \* the action sent with robot.send_action
    b_event,               \* the event of the B button read_input read in the last
                           \* iteration: "press", "release" or "none"
    controller_running     \* whether main is still in its loop

\* main of teleoperate_xbox_controller.py from its try to robot.disconnect()
\* (specification SpecMain)
VARIABLES
    main_pc,               \* where main is: "connect" (joystick is None, top of the
                           \* outer loop), "loop" (the control loop), "retry" (the
                           \* if joystick is None after the control loop), "except"
                           \* (the except IOError of the outer loop), "finally",
                           \* "disconnect" (about to call robot.disconnect()), "done"
    left_by,               \* why the control loop was last left, "none" before
    stop_pending,          \* the control loop was left and no action sent since
    actions_sent,          \* number of robot.send_action calls that returned
    robot_disconnected     \* robot.disconnect() was called

\* the connection of an XboxTeleop object (specification SpecConnection)
VARIABLES
    _is_connected,         \* self._is_connected
    joystick_object,       \* self.controller: "None" or "Joystick", the object
                           \* pygame.joystick.Joystick(0)
    pygame,                \* self.pygame: "None" or "module"
    pygame_initialized,    \* pygame.init() was called and pygame.quit() not since
    called,                \* the method of the last call made on the object
    raised,                \* the exception the last call raised, "none" if it returned
    last_successful,       \* the last of connect / disconnect that returned
    nconn                  \* number of connect / disconnect / get_action calls made

\* the locks of the server (specifications SpecLocks and SpecLocksFair: the
\* handlers of the pool, lock by lock)
VARIABLES
    predicted_timesteps_lock,  \* the handler holding self._predicted_timesteps_lock,
                               \* 0 when it is free
    queue_objects,         \* queue_objects[q]: the Queue objects made so far, each
                           \* with the holder of its mutex (0: free) and its qsize
    inbox,                 \* the object self.observation_queue is bound to
    on_queue,              \* on_queue[h]: the object whose method h is in
    expired,               \* expired[h]: the timeout of h's get has passed
    nrpcs                  \* number of calls the pool has started

\* the denoising loop of _get_action_chunk_with_rtc (specification SpecDenoise)
VARIABLES
    num_steps,             \* vla_model.config.num_steps of the call, 0 outside a call
    dt,                    \* the float32 tensor dt: -dt.m * 2^-dt.k
    time_val,              \* the float32 tensor time_val: time_val.m * 2^time_val.e
                           \* in units of 2^-dt.k
    v_t,                   \* the time at which the last v_t was computed
    iterations,            \* iterations of the loop made so far, which is also the
                           \* number of Euler steps added to x_t
    denoise_pc             \* "idle", "loop" or "exited"

connection == <<_is_connected, joystick_object, pygame, pygame_initialized, called,
                raised, last_successful, nconn>>
teleop == <<xbox, controller, xbox_action, previous_action, ncalls, hybrid_action,
            hybrid_running, connection>>
program == <<main_pc, left_by, stop_pending, actions_sent, robot_disconnected>>
pad == <<button_state, analog_state, emergency_stopped, base_action, b_event,
         controller_running, program>>

locks == <<predicted_timesteps_lock, queue_objects, inbox, on_queue, expired, nrpcs>>

denoise == <<num_steps, dt, time_val, v_t, iterations, denoise_pc>>

\* the variables of the specifications other than Spec
beyond == <<timing, setup, inference, teleop, pad, locks, denoise>>

threads == <<observation_queue, old_queues, predicted_timesteps, last_processed_obs,
             shutdown_event, policy, actions_per_chunk, rpc, pc, obs, resp, flags,
             nsent, sent_timesteps, first_plain, engine_log>>

vars == <<threads, beyond>>

server == <<predicted_timesteps, last_processed_obs, shutdown_event, policy, actions_per_chunk>>
history == <<nsent, sent_timesteps, first_plain, engine_log>>

(* ------------------------ controller readings ------------------------- *)

\* get_action calls made on one XboxTeleop object
MaxCalls == 2

\* connect / disconnect / get_action calls made on one XboxTeleop object
MaxConnectionCalls == 4
\* of which get_action calls made on a connected object
MaxConnectedCalls == 1

\* actions main sends before its finally
MaxActions == 3

\* an axis reading of 1.0: readings are in thousandths
AxisUnit == 1000
\* XboxTeleopConfig, in the units of the readings and of the velocities
deadzone == 100
base_linear_vel == 3
base_angular_vel == 900
arm_speed == 5
gripper_speed == 5
stick_scale == 1

\* _apply_deadzone divides by 1.0 - deadzone: its results are counted in units
\* of 1 / StickRange, velocities in units of 1 / (10 * StickRange), joint
\* positions in units of 1 / (100 * StickRange)
StickRange == AxisUnit - deadzone
\* np.clip bounds of the joints: 2 * np.pi (rounded down to a unit), 2.0
TwoPi == 565486
GripperLimit == 2 * 100 * StickRange

Joints == {"arm_shoulder_pan", "arm_shoulder_lift", "arm_elbow_flex", "arm_wrist_flex",
           "arm_wrist_roll", "arm_gripper"}
Axes == {"lx", "ly", "rx", "ry", "lt", "rt"}
BaseKeys == {"x.vel", "y.vel", "theta.vel"}

\* the readings of an axis nobody touches, and of one that is deflected
Noise == {-50, 0, 50}
Deflections == {-AxisUnit, 550}

\* the controller with every axis at n, the D-pad centred, no button down
Rest(n) == [axis |-> [a \in Axes |-> n], dpad_x |-> 0, dpad_y |-> 0,
            LS |-> FALSE, RB |-> FALSE]

\* what the controller reads during one call: nothing touched, or one stick
\* or trigger deflected, or the D-pad pushed, with LS and RB up or down
Readings ==
    LET Hands == {Rest(n) : n \in Noise}
                 \cup {[Rest(n) EXCEPT !.axis[a] = v] :
                          n \in Noise, a \in Axes, v \in Deflections}
                 \cup {[Rest(n) EXCEPT !.dpad_x = x, !.dpad_y = y] :
                          n \in Noise, x \in {-1, 0, 1}, y \in {-1, 0, 1}}
    IN  {[r EXCEPT !.LS = ls, !.RB = rb] : r \in Hands, ls \in BOOLEAN, rb \in BOOLEAN}

\* self.arm_positions[joint] = None
Unset == -1000000000
\* the joint positions a robot observation reports, in position units
ObservedPositions == {-900000, 0, 45000, 900000}
NoObservation == [present |-> FALSE, pos |-> [j \in Joints |-> Unset]]
Observations == {NoObservation}
                \cup {[present |-> TRUE, pos |-> [j \in Joints |-> p]] :
                         p \in ObservedPositions}

ZeroVelocities == [k \in BaseKeys |-> 0]
NoAction == [arm |-> [j \in Joints |-> Unset], base |-> ZeroVelocities]

\* XboxTeleop.__init__
XboxTeleop == [initialized |-> FALSE,
               arm_positions |-> [j \in Joints |-> Unset],
               base_velocities |-> ZeroVelocities,
               arm_speed_multiplier |-> 1]

\* teleoperate_xbox_controller.py: stick readings in thousandths, BASE_LINEAR_VEL
\* in tenths (0.5 m/s), BASE_ANGULAR_VEL in tens (50.0 deg/s), the trigger
\* threshold in thousandths
DEADZONE == 80
BASE_LINEAR_VEL == 5
BASE_ANGULAR_VEL == 5
TriggerThreshold == 50

\* XboxController.__init__: self.analog_state, every axis at 0
AnalogAxes == {"ABS_X", "ABS_Y", "ABS_RX", "ABS_Z", "ABS_RZ"}
NoAnalog == [a \in AnalogAxes |-> 0]
\* the states of the sticks (-1.0 to 1.0) and of the triggers (0.0 to 1.0)
\* after read_input
AnalogStates == {[a \in AnalogAxes |-> IF a \in {"ABS_Z", "ABS_RZ"} THEN t[a] ELSE v[a]] :
                    v \in [AnalogAxes -> {-AxisUnit, 50, 600}],
                    t \in [AnalogAxes -> {0, 600}]}

(* --------------------------- queue.Queue ------------------------------- *)

\* mutant of full: a queue built without maxsize is never full
full_unbounded(q) == FALSE

\* Queue.full(): 0 < maxsize <= qsize
full(q) == 0 < maxsize /\ maxsize <= Len(q)

\* mutant of get: the head is read and left in the queue
get_peek(q) == q

\* the items left after Queue.get / get_nowait took the head
get(q) == Tail(q)

\* the items after Queue.put(item)
put(q, item) == Append(q, item)

\* no tensor yet
NoTensor == [m |-> 0, e |-> 0, k |-> 0]

\* Queue(maxsize=1): a new queue object, its mutex free and nothing in it
Queue == [mutex |-> 0, qsize |-> 0]

(* --------------------------- __init__ ---------------------------------- *)

Init ==
    /\ observation_queue = <<>>
    /\ old_queues = {}
    /\ predicted_timesteps = {}
    /\ last_processed_obs = None
    /\ shutdown_event = FALSE
    /\ policy = "none"
    /\ actions_per_chunk = 0
    /\ rpc = [h \in Handlers |-> "idle"]
    /\ pc = [h \in Handlers |-> "idle"]
    /\ obs = [h \in Handlers |-> None]
    /\ resp = [h \in Handlers |-> NoResponse]
    /\ flags = [h \in Handlers |-> NoFlags]
    /\ nsent = 0
    /\ sent_timesteps = {}
    /\ first_plain = [k \in Timesteps |-> 0]
    /\ engine_log = <<>>
    /\ ga_phase = "idle"
    /\ ga_now = 0
    /\ ga_waited = 0
    /\ ga_wake = 0
    /\ ga_inbox = FALSE
    /\ ga_resp = "none"
    /\ rtc_config = NoRTCConfig
    /\ device = "None"
    /\ policy_type = "None"
    /\ lerobot_features = "None"
    /\ rtc_processor = "None"
    /\ rtc_action_queue = NoActionQueue
    /\ last_call = [method |-> "none", request |-> NoRequest, response |-> NoResponse,
                    real_delay |-> 0, last_merge |-> "none"]
    /\ snapshots = [h \in Handlers |-> "none"]
    /\ taken_since_reset = {}
    /\ xbox = XboxTeleop
    /\ controller = Rest(0)
    /\ xbox_action = NoAction
    /\ previous_action = NoAction
    /\ ncalls = 0
    /\ hybrid_action = NoAction
    /\ hybrid_running = TRUE
    /\ _is_connected = FALSE
    /\ joystick_object = "None"
    /\ pygame = "None"
    /\ pygame_initialized = FALSE
    /\ called = "none"
    /\ raised = "none"
    /\ last_successful = "none"
    /\ nconn = 0
    /\ button_state = 0
    /\ analog_state = NoAnalog
    /\ emergency_stopped = FALSE
    /\ base_action = ZeroVelocities
    /\ b_event = "none"
    /\ controller_running = TRUE
    /\ main_pc = "connect"
    /\ left_by = "none"
    /\ stop_pending = FALSE
    /\ actions_sent = 0
    /\ robot_disconnected = FALSE
    /\ predicted_timesteps_lock = 0
    /\ queue_objects = <<Queue>>
    /\ inbox = 1
    /\ on_queue = [h \in Handlers |-> 0]
    /\ expired = [h \in Handlers |-> FALSE]
    /\ nrpcs = 0
    /\ num_steps = 0
    /\ dt = NoTensor
    /\ time_val = NoTensor
    /\ v_t = NoTensor
    /\ iterations = 0
    /\ denoise_pc = "idle"

(* ------------------------------ the pool ------------------------------- *)

\* the pool gives a new call to a free thread; which one does not matter,
\* so it is the first free one
Free(h) == pc[h] = "idle" /\ \A g \in Handlers : g < h => pc[g] # "idle"

\* handler h starts method m and goes to position p
Start(h, m, p) ==
    /\ rpc' = [rpc EXCEPT ![h] = m]
    /\ pc' = [pc EXCEPT ![h] = p]

\* handler h returns r
Return(h, r) ==
    /\ pc' = [pc EXCEPT ![h] = "done"]
    /\ resp' = [resp EXCEPT ![h] = r]

\* handler h starts method m and returns r at once
StartReturn(h, m, r) ==
    /\ rpc' = [rpc EXCEPT ![h] = m]
    /\ Return(h, r)

Goto(h, p) == pc' = [pc EXCEPT ![h] = p]

\* the response has gone to the client and the thread is free again
Release(h) ==
    /\ pc[h] = "done"
    /\ rpc' = [rpc EXCEPT ![h] = "idle"]
    /\ pc' = [pc EXCEPT ![h] = "idle"]
    /\ obs' = [obs EXCEPT ![h] = None]
    /\ resp' = [resp EXCEPT ![h] = NoResponse]
    /\ flags' = [flags EXCEPT ![h] = NoFlags]
    /\ UNCHANGED <<observation_queue, old_queues, server, history>>

\* a handler blocked inside Queue.get or Queue.put blocks on the queue object
\* it called, which _reset_server may have replaced since
Blocked(h) == pc[h] \in {"ga_wait", "so_wait"}
OnOld(h) == \E r \in old_queues : h \in r.waiters
OldOf(h) == CHOOSE r \in old_queues : h \in r.waiters
QueueOf(h) == IF OnOld(h) THEN OldOf(h).items ELSE observation_queue

\* blocked handler h leaves its queue object, whose items are now q
Leave(h, q) ==
    IF OnOld(h)
    THEN /\ old_queues' = (old_queues \ {OldOf(h)}) \cup
                (IF OldOf(h).waiters = {h} THEN {}
                 ELSE {[waiters |-> OldOf(h).waiters \ {h}, items |-> q]})
         /\ UNCHANGED observation_queue
    ELSE /\ observation_queue' = q
         /\ UNCHANGED old_queues

(* ---------------------------- Ready ------------------------------------ *)

\* Ready, _reset_server: self.shutdown_event.set();
\* self.observation_queue = Queue(maxsize=1): a new, empty queue object; the
\* handlers blocked inside get or put of the old object stay on the old one
Ready_reset_queue(h) ==
    /\ Free(h)
    /\ Start(h, "Ready", "r_predicted")
    /\ shutdown_event' = TRUE
    /\ observation_queue' = <<>>
    /\ old_queues' =
           LET waiters == {g \in Handlers : Blocked(g) /\ ~OnOld(g)}
           IN  IF waiters = {} THEN old_queues
               ELSE old_queues \cup {[waiters |-> waiters, items |-> observation_queue]}
    /\ UNCHANGED <<predicted_timesteps, last_processed_obs, policy, actions_per_chunk,
                   obs, resp, flags, history>>

\* mutant of reset_predicted_timesteps: only the oldest timestep is forgotten
reset_predicted_timesteps_oldest(predicted) ==
    predicted \ {k \in predicted : \A j \in predicted : k <= j}

\* self._predicted_timesteps = set()
reset_predicted_timesteps(predicted) == {}

\* mutant of reset_last_processed_obs: the reset forgets the last processed
\* observation
reset_last_processed_obs_cleared(last) == None

\* _reset_server has no assignment to self.last_processed_obs
reset_last_processed_obs(last) == last

\* with self._predicted_timesteps_lock: self._predicted_timesteps = set();
\* back in Ready: self.shutdown_event.clear(); return Empty
Ready_reset_predicted(h) ==
    /\ pc[h] = "r_predicted"
    /\ predicted_timesteps' = reset_predicted_timesteps(predicted_timesteps)
    /\ last_processed_obs' = reset_last_processed_obs(last_processed_obs)
    /\ shutdown_event' = FALSE
    /\ Return(h, Empty)
    /\ UNCHANGED <<observation_queue, old_queues, policy,
                   actions_per_chunk, rpc, obs, flags, history>>

(* ---------------------- SendPolicyInstructions ------------------------- *)

\* SendPolicyInstructions: ignored while the shutdown event is set, otherwise
\* loads the policy and installs actions_per_chunk
SendPolicyInstructions(h, apc) ==
    /\ Free(h)
    /\ StartReturn(h, "SendPolicyInstructions", Empty)
    /\ IF shutdown_event
       THEN UNCHANGED <<policy, actions_per_chunk>>
       ELSE /\ policy' = "loaded"
            /\ actions_per_chunk' = apc
    /\ UNCHANGED <<observation_queue, old_queues, predicted_timesteps, last_processed_obs,
                   shutdown_event, obs, flags, history>>

(* -------------------------- SendObservations --------------------------- *)

\* mutant of obs_sanity_checks: the similarity filter is left out
obs_sanity_checks_no_similarity(o, predicted, observations_similar) ==
    IF o.timestep \in predicted THEN FALSE ELSE TRUE

\* mutant of obs_sanity_checks: the test on the predicted timesteps is left out
obs_sanity_checks_no_dedup(o, predicted, observations_similar) ==
    IF observations_similar THEN FALSE ELSE TRUE

\* _obs_sanity_checks(obs, previous_obs), on the predicted timesteps it reads
\* under the lock; observations_similar is what
\* observations_similar(obs, previous_obs, lerobot_features) answers
obs_sanity_checks(o, predicted, observations_similar) ==
    IF o.timestep \in predicted THEN FALSE
    ELSE IF observations_similar THEN FALSE
    ELSE TRUE

\* the condition of _enqueue_observation
must_enqueue(o, last, predicted, observations_similar) ==
    IF o.must_go THEN TRUE
    ELSE IF last = None THEN TRUE
    ELSE obs_sanity_checks(o, predicted, observations_similar)

\* SendObservations: the stream is reassembled and unpickled into a
\* TimedObservation; _enqueue_observation decides whether it goes to the
\* queue and, if it does, looks whether the queue is full. A filtered
\* observation makes the handler return. similar tells whether the
\* observation is similar to the last processed one (there is one to compare
\* with only once an observation has been processed).
SendObservations_enqueue(h, k, mg, similar) ==
    /\ Free(h)
    /\ nsent < MaxSends
    /\ similar => last_processed_obs # None
    /\ nsent' = nsent + 1
    /\ sent_timesteps' = sent_timesteps \cup {k}
    /\ first_plain' = IF ~mg /\ first_plain[k] = 0
                      THEN [first_plain EXCEPT ![k] = nsent + 1] ELSE first_plain
    /\ LET o == TimedObservation(nsent + 1, k, mg)
       IN  /\ obs' = [obs EXCEPT ![h] = o]
           /\ IF must_enqueue(o, last_processed_obs, predicted_timesteps, similar)
              THEN /\ flags' = [flags EXCEPT ![h] =
                                  [accepted |-> TRUE, similar |-> similar,
                                   saw_full |-> full(observation_queue), stored |-> FALSE]]
                   /\ Start(h, "SendObservations",
                            IF full(observation_queue) THEN "so_get_nowait" ELSE "so_put")
                   /\ UNCHANGED resp
              ELSE /\ StartReturn(h, "SendObservations", Empty)
                   /\ flags' = [flags EXCEPT ![h].similar = similar]
    /\ UNCHANGED <<observation_queue, old_queues, server, engine_log>>

\*     _ = self.observation_queue.get_nowait(): raises Empty on an empty queue,
\*     and the exception leaves SendObservations
SendObservations_get_nowait(h) ==
    /\ pc[h] = "so_get_nowait"
    /\ IF observation_queue = <<>>
       THEN /\ Return(h, Raised)
            /\ UNCHANGED observation_queue
       ELSE /\ observation_queue' = get(observation_queue)
            /\ Goto(h, "so_put")
            /\ UNCHANGED resp
    /\ UNCHANGED <<old_queues, server, rpc, obs, flags, history>>

\* self.observation_queue.put(obs): blocks inside put while the queue is full
SendObservations_put(h) ==
    /\ pc[h] = "so_put"
    /\ IF full(observation_queue)
       THEN /\ Goto(h, "so_wait")
            /\ UNCHANGED <<observation_queue, resp, flags>>
       ELSE /\ observation_queue' = put(observation_queue, obs[h])
            /\ flags' = [flags EXCEPT ![h].stored = TRUE]
            /\ Return(h, Empty)
    /\ UNCHANGED <<old_queues, server, rpc, obs, history>>

\* a handler blocked inside put goes on when its queue object has room
SendObservations_put_wakes(h) ==
    /\ pc[h] = "so_wait"
    /\ ~full(QueueOf(h))
    /\ Leave(h, put(QueueOf(h), obs[h]))
    /\ flags' = [flags EXCEPT ![h].stored = TRUE]
    /\ Return(h, Empty)
    /\ UNCHANGED <<server, rpc, obs, history>>

(* ----------------------------- GetActions ------------------------------ *)

\* self.policy.predict_action_chunk(observation): chunk_size actions, the
\* i-th of them identified by its index
predict_action_chunk == [i \in 1..chunk_size |-> i - 1]

\* _get_action_chunk: chunk[:, : self.actions_per_chunk, :]
get_action_chunk(apc) == SubSeq(predict_action_chunk, 1, Min(apc, Len(predict_action_chunk)))

\* mutant of time_action_chunk: the enumeration starts at 1
time_action_chunk_from_one(t_0, action_chunk, i_0) ==
    [i \in 1..Len(action_chunk) |->
        [timestamp |-> t_0 + i * environment_dt,
         timestep |-> i_0 + i,
         action |-> action_chunk[i]]]

\* _time_action_chunk(t_0, action_chunk, i_0)
time_action_chunk(t_0, action_chunk, i_0) ==
    [i \in 1..Len(action_chunk) |->
        [timestamp |-> t_0 + (i - 1) * environment_dt,
         timestep |-> i_0 + (i - 1),
         action |-> action_chunk[i]]]

\* except Empty: return services_pb2.Empty()
GetActionsOnEmpty == Empty

\* mutant of GetActionsOnError: the exception leaves GetActions
GetActionsOnError_propagates == Raised

\* except Exception as e: log the error, return services_pb2.Empty()
GetActionsOnError == Empty

\* the handlers inside _predict_action_chunk
Inferring == {h \in Handlers : pc[h] \in {"predict_prepare", "predict_infer"}}

\* the entry of the log for an observation passed to the engine; ended_after
\* will be the number of observations sent when its inference ended
Passed(o) == [id |-> o.id, timestep |-> o.timestep, must_go |-> o.must_go,
              outcome |-> "running", ended_after |-> 0]

\* the log once the inference on observation o has ended with outcome r
Ended(log, o, r) ==
    [i \in 1..Len(log) |->
        IF log[i].id = o.id /\ log[i].outcome = "running"
           /\ \A j \in 1..(i - 1) : ~(log[j].id = o.id /\ log[j].outcome = "running")
        THEN [log[i] EXCEPT !.outcome = r, !.ended_after = nsent] ELSE log[i]]

\* GetActions: obs = self.observation_queue.get(timeout=...); takes the head
\* at once when there is one, blocks inside get otherwise
GetActions_get(h) ==
    /\ Free(h)
    /\ IF observation_queue # <<>>
       THEN /\ Start(h, "GetActions", "ga_add")
            /\ obs' = [obs EXCEPT ![h] = Head(observation_queue)]
            /\ observation_queue' = get(observation_queue)
       ELSE /\ Start(h, "GetActions", "ga_wait")
            /\ UNCHANGED <<obs, observation_queue>>
    /\ UNCHANGED <<old_queues, server, resp, flags, history>>

\* an item arrives in the queue object the handler blocks on
GetActions_get_wakes(h) ==
    /\ pc[h] = "ga_wait"
    /\ QueueOf(h) # <<>>
    /\ obs' = [obs EXCEPT ![h] = Head(QueueOf(h))]
    /\ Leave(h, get(QueueOf(h)))
    /\ Goto(h, "ga_add")
    /\ UNCHANGED <<server, rpc, resp, flags, history>>

\* obs_queue_timeout passes with the queue object still empty: queue.Empty
GetActions_timeout(h) ==
    /\ pc[h] = "ga_wait"
    /\ QueueOf(h) = <<>>
    /\ Leave(h, QueueOf(h))
    /\ Return(h, GetActionsOnEmpty)
    /\ UNCHANGED <<server, rpc, obs, flags, history>>

\* with self._predicted_timesteps_lock:
\*     self._predicted_timesteps.add(obs.get_timestep())
\* and the call of self._predict_action_chunk(obs)
GetActions_add(h) ==
    /\ pc[h] = "ga_add"
    /\ predicted_timesteps' = predicted_timesteps \cup {obs[h].timestep}
    /\ engine_log' = Append(engine_log, Passed(obs[h]))
    /\ Goto(h, "predict_prepare")
    /\ UNCHANGED <<observation_queue, old_queues, last_processed_obs, shutdown_event, policy,
                   actions_per_chunk, rpc, obs, resp, flags, nsent, sent_timesteps, first_plain>>

\* _predict_action_chunk, 1. and 2.: raw_observation_to_observation reads
\* self.policy.config (an AttributeError while no policy is loaded), the
\* preprocessor may raise; then self.last_processed_obs = observation_t
predict_prepare(h, ok) ==
    /\ pc[h] = "predict_prepare"
    /\ IF policy # "none" /\ ok
       THEN /\ last_processed_obs' = obs[h]
            /\ Goto(h, "predict_infer")
            /\ UNCHANGED <<resp, engine_log>>
       ELSE /\ Return(h, GetActionsOnError)
            /\ engine_log' = Ended(engine_log, obs[h], "raised")
            /\ UNCHANGED last_processed_obs
    /\ UNCHANGED <<observation_queue, old_queues, predicted_timesteps, shutdown_event, policy,
                   actions_per_chunk, rpc, obs, flags, nsent, sent_timesteps, first_plain>>

\* _predict_action_chunk, 3. to 5.: the policy's chunk, postprocessed action
\* by action and timed from the observation's timestamp and timestep; then
\* GetActions pickles it and returns it. Any of these may raise.
predict_infer(h, ok) ==
    /\ pc[h] = "predict_infer"
    /\ IF ok
       THEN /\ Return(h, Actions(time_action_chunk(get_timestamp(obs[h]),
                                                   get_action_chunk(actions_per_chunk),
                                                   obs[h].timestep)))
            /\ engine_log' = Ended(engine_log, obs[h], "returned")
       ELSE /\ Return(h, GetActionsOnError)
            /\ engine_log' = Ended(engine_log, obs[h], "raised")
    /\ UNCHANGED <<observation_queue, old_queues, server, rpc, obs, flags,
                   nsent, sent_timesteps, first_plain>>

(* ------------------------------ the server ----------------------------- *)

\* a response is with the client before anything else happens
NoneDone == \A h \in Handlers : pc[h] # "done"

Next ==
    \/ \E h \in Handlers : Release(h) /\ UNCHANGED beyond
    \/ \E h \in Handlers : NoneDone /\ Ready_reset_queue(h) /\ UNCHANGED beyond
    \/ \E h \in Handlers : NoneDone /\ Ready_reset_predicted(h) /\ UNCHANGED beyond
    \/ \E h \in Handlers, apc \in 1..chunk_size : NoneDone /\ SendPolicyInstructions(h, apc) /\ UNCHANGED beyond
    \/ \E h \in Handlers, k \in Timesteps, mg \in BOOLEAN, similar \in BOOLEAN :
           NoneDone /\ SendObservations_enqueue(h, k, mg, similar) /\ UNCHANGED beyond
    \/ \E h \in Handlers : NoneDone /\ SendObservations_get_nowait(h) /\ UNCHANGED beyond
    \/ \E h \in Handlers : NoneDone /\ SendObservations_put(h) /\ UNCHANGED beyond
    \/ \E h \in Handlers : NoneDone /\ SendObservations_put_wakes(h) /\ UNCHANGED beyond
    \/ \E h \in Handlers : NoneDone /\ GetActions_get(h) /\ UNCHANGED beyond
    \/ \E h \in Handlers : NoneDone /\ GetActions_get_wakes(h) /\ UNCHANGED beyond
    \/ \E h \in Handlers : NoneDone /\ GetActions_timeout(h) /\ UNCHANGED beyond
    \/ \E h \in Handlers : NoneDone /\ GetActions_add(h) /\ UNCHANGED beyond
    \/ \E h \in Handlers, ok \in BOOLEAN : NoneDone /\ predict_prepare(h, ok) /\ UNCHANGED beyond
    \/ \E h \in Handlers, ok \in BOOLEAN : NoneDone /\ predict_infer(h, ok) /\ UNCHANGED beyond

Spec == Init /\ [][Next]_vars

(* ----------------------- GetActions and the clock ---------------------- *)

Max(a, b) == IF a < b THEN b ELSE a

\* mutant of sleep_time: the handler does not sleep
sleep_time_none(elapsed) == 0

\* max(0, self.config.inference_latency - max(0, time.perf_counter() - getactions_starts))
sleep_time(elapsed) == Max(0, inference_latency - Max(0, elapsed))

\* GetActions is called: getactions_starts = time.perf_counter(), and the
\* handler enters observation_queue.get(timeout=obs_queue_timeout)
Clock_call ==
    /\ ga_phase = "idle"
    /\ ga_phase' = "get"
    /\ ga_now' = 0
    /\ ga_waited' = 0
    /\ ga_wake' = 0
    /\ ga_resp' = "none"
    /\ UNCHANGED ga_inbox

\* a SendObservations handler puts an observation into the inbox
Clock_put ==
    /\ ga_phase \in {"idle", "get"}
    /\ ~ga_inbox
    /\ ga_inbox' = TRUE
    /\ UNCHANGED <<ga_phase, ga_now, ga_waited, ga_wake, ga_resp>>

\* a millisecond passes: get returns as soon as there is an observation and
\* gives up when the timeout has passed, sleep returns when its time is over
Clock_tick ==
    /\ \/ ga_phase = "get" /\ ~ga_inbox /\ ga_now < obs_queue_timeout
       \/ ga_phase = "predict" /\ ga_now - ga_waited < MaxInferenceTime
       \/ ga_phase = "sleep" /\ ga_now < ga_wake
    /\ ga_now' = ga_now + 1
    /\ UNCHANGED <<ga_phase, ga_waited, ga_wake, ga_inbox, ga_resp>>

\* obs = self.observation_queue.get(timeout=...) returns the observation
Clock_get ==
    /\ ga_phase = "get"
    /\ ga_inbox
    /\ ga_inbox' = FALSE
    /\ ga_waited' = ga_now
    /\ ga_phase' = "predict"
    /\ UNCHANGED <<ga_now, ga_wake, ga_resp>>

\* get raises queue.Empty after obs_queue_timeout; except Empty: return Empty()
Clock_timeout ==
    /\ ga_phase = "get"
    /\ ~ga_inbox
    /\ ga_now >= obs_queue_timeout
    /\ ga_waited' = ga_now
    /\ ga_phase' = "done"
    /\ ga_resp' = GetActionsOnEmpty.kind
    /\ UNCHANGED <<ga_now, ga_wake, ga_inbox>>

\* _predict_action_chunk and pickle.dumps have returned: time.sleep(max(0, ...))
Clock_sleep ==
    /\ ga_phase = "predict"
    /\ ga_wake' = ga_now + sleep_time(ga_now)
    /\ ga_phase' = "sleep"
    /\ UNCHANGED <<ga_now, ga_waited, ga_inbox, ga_resp>>

\* time.sleep has returned: return actions
Clock_return ==
    /\ ga_phase = "sleep"
    /\ ga_now >= ga_wake
    /\ ga_phase' = "done"
    /\ ga_resp' = "actions"
    /\ UNCHANGED <<ga_now, ga_waited, ga_wake, ga_inbox>>

\* a step of the inference raises; except Exception: return Empty()
Clock_raise ==
    /\ ga_phase = "predict"
    /\ ga_phase' = "done"
    /\ ga_resp' = GetActionsOnError.kind
    /\ UNCHANGED <<ga_now, ga_waited, ga_wake, ga_inbox>>

\* the response is with the client
Clock_release ==
    /\ ga_phase = "done"
    /\ ga_phase' = "idle"
    /\ UNCHANGED <<ga_now, ga_waited, ga_wake, ga_inbox, ga_resp>>

NextTiming ==
    \/ Clock_call /\ UNCHANGED <<threads, setup, inference, teleop, pad, locks, denoise>>
    \/ Clock_put /\ UNCHANGED <<threads, setup, inference, teleop, pad, locks, denoise>>
    \/ Clock_tick /\ UNCHANGED <<threads, setup, inference, teleop, pad, locks, denoise>>
    \/ Clock_get /\ UNCHANGED <<threads, setup, inference, teleop, pad, locks, denoise>>
    \/ Clock_timeout /\ UNCHANGED <<threads, setup, inference, teleop, pad, locks, denoise>>
    \/ Clock_sleep /\ UNCHANGED <<threads, setup, inference, teleop, pad, locks, denoise>>
    \/ Clock_return /\ UNCHANGED <<threads, setup, inference, teleop, pad, locks, denoise>>
    \/ Clock_raise /\ UNCHANGED <<threads, setup, inference, teleop, pad, locks, denoise>>
    \/ Clock_release /\ UNCHANGED <<threads, setup, inference, teleop, pad, locks, denoise>>

SpecTiming == Init /\ [][NextTiming]_vars

(* ---------------- one client, one call at a time ----------------------- *)

\* what the calls of a single client, made one after the other, leave alone
unserved == <<old_queues, rpc, pc, obs, resp, flags, sent_timesteps, first_plain,
              engine_log, timing, inference, teleop, pad, locks, denoise>>

Called(method, request, response) ==
    last_call' = [method |-> method, request |-> request, response |-> response,
                  real_delay |-> 0, last_merge |-> last_call.last_merge]

\* ActionQueue.merge raises when the inference is stale
StaleInference(real_delay) == real_delay >= chunk_size

\* a GetActions call whose inference measured real_delay; last_merge is what
\* became of the latest chunk handed to ActionQueue.merge
Inferred(real_delay, response) ==
    last_call' = [method |-> "GetActions", request |-> NoRequest, response |-> response,
                  real_delay |-> real_delay,
                  last_merge |-> IF ~rtc_action_queue.exists THEN last_call.last_merge
                                 ELSE IF StaleInference(real_delay) THEN "stale"
                                 ELSE "merged"]

\* _reset_server: if self.rtc_action_queue is not None:
\*                    self.rtc_action_queue = ActionQueue(self.rtc_config)
reset_rtc_action_queue(queue, cfg) == IF queue.exists THEN ActionQueue(cfg) ELSE queue

\* Ready run from its call to its return: _reset_server(), then
\* shutdown_event.clear()
Serial_Ready ==
    /\ observation_queue' = <<>>
    /\ predicted_timesteps' = reset_predicted_timesteps(predicted_timesteps)
    /\ rtc_action_queue' = reset_rtc_action_queue(rtc_action_queue, rtc_config)
    /\ shutdown_event' = FALSE
    /\ Called("Ready", NoRequest, Empty)
    /\ UNCHANGED <<last_processed_obs, policy, actions_per_chunk, nsent, rtc_config, device,
                   policy_type, lerobot_features, rtc_processor, unserved>>

\* SendPolicyInstructions run from its call to its return or to the
\* exception that leaves it; load_ok tells whether from_pretrained, to(device)
\* and make_pre_post_processors succeed
Serial_SendPolicyInstructions(request, load_ok) ==
    /\ IF shutdown_event
       THEN /\ Called("SendPolicyInstructions", request, Empty)
            /\ UNCHANGED <<policy, actions_per_chunk, rtc_config, device, policy_type,
                           lerobot_features, rtc_processor, rtc_action_queue>>
       ELSE IF request.policy_type \notin SUPPORTED_POLICIES
       THEN /\ Called("SendPolicyInstructions", request, Raised)
            /\ UNCHANGED <<policy, actions_per_chunk, rtc_config, device, policy_type,
                           lerobot_features, rtc_processor, rtc_action_queue>>
       ELSE /\ rtc_config' = request.rtc_config
            /\ device' = request.device
            /\ policy_type' = request.policy_type
            /\ lerobot_features' = request.lerobot_features
            /\ actions_per_chunk' = request.actions_per_chunk
            /\ IF ~load_ok
               THEN /\ Called("SendPolicyInstructions", request, Raised)
                    /\ UNCHANGED <<policy, rtc_processor, rtc_action_queue>>
               ELSE /\ policy' = "loaded"
                    /\ IF request.rtc_config.present /\ request.rtc_config.enabled
                       THEN /\ rtc_processor' = "RTCProcessor"
                            /\ rtc_action_queue' = ActionQueue(request.rtc_config)
                       ELSE /\ rtc_processor' = "None"
                            /\ rtc_action_queue' = NoActionQueue
                    /\ Called("SendPolicyInstructions", request, Empty)
    /\ UNCHANGED <<observation_queue, predicted_timesteps, last_processed_obs, shutdown_event,
                   nsent, unserved>>

\* SendObservations run from its call to its return
Serial_SendObservations(k, mg, similar) ==
    /\ nsent < MaxSends
    /\ similar => last_processed_obs # None
    /\ nsent' = nsent + 1
    /\ LET o == TimedObservation(nsent + 1, k, mg)
       IN  observation_queue' =
               IF must_enqueue(o, last_processed_obs, predicted_timesteps, similar)
               THEN put(IF full(observation_queue) THEN get(observation_queue)
                        ELSE observation_queue, o)
               ELSE observation_queue
    /\ Called("SendObservations", NoRequest, Empty)
    /\ UNCHANGED <<predicted_timesteps, last_processed_obs, shutdown_event, policy,
                   actions_per_chunk, rtc_config, device, policy_type, lerobot_features,
                   rtc_processor, rtc_action_queue, unserved>>

\* self.postprocessor(single_action): the unnormalized action
postprocessor(action) == [unnormalized |-> action]

\* _get_action_chunk_with_rtc: the denoised chunk, chunk[:, : self.actions_per_chunk, :]
get_action_chunk_with_rtc(apc) ==
    SubSeq(predict_action_chunk, 1, Min(apc, Len(predict_action_chunk)))

\* ActionQueue.merge(original_actions, processed_actions, real_delay,
\* action_index_before_inference)
merge(queue, original_actions, processed_actions, real_delay, action_index_before_inference) ==
    [queue EXCEPT
        !.pending = SubSeq(processed_actions, real_delay + 1, Len(processed_actions)),
        !.leftover = SubSeq(original_actions, real_delay + execution_horizon + 1,
                            Len(original_actions))]

\* _predict_action_chunk, 3. to 5.: the chunk of the policy, with or without
\* RTC, postprocessed action by action and timed
original_actions_of(apc) ==
    IF rtc_processor # "None" THEN get_action_chunk_with_rtc(apc) ELSE get_action_chunk(apc)
processed_actions_of(original) == [i \in 1..Len(original) |-> postprocessor(original[i])]

\* mutant of preprocessed: the observation is not recorded
preprocessed_not_recorded(o, last) == last

\* self.last_processed_obs = observation_t, right after self.preprocessor
\* returned (line 504)
preprocessed(o, last) == o

\* GetActions run from its call to its return, with no other call on the
\* way: a timeout on an empty inbox, or the inference on the observation
\* taken; outcome tells which step raises, real_delay what is measured at the
\* end of the inference
Serial_GetActions(real_delay, outcome) ==
    /\ IF observation_queue = <<>>
       THEN /\ outcome = "returns" /\ real_delay = 0
            /\ Called("GetActions", NoRequest, GetActionsOnEmpty)
            /\ UNCHANGED <<observation_queue, predicted_timesteps, last_processed_obs,
                           rtc_action_queue>>
       ELSE LET o == Head(observation_queue)
                original == original_actions_of(actions_per_chunk)
                processed == processed_actions_of(original)
                action_chunk == time_action_chunk(get_timestamp(o), processed, o.timestep)
            IN  /\ observation_queue' = get(observation_queue)
                /\ predicted_timesteps' = predicted_timesteps \cup {o.timestep}
                \* real_delay is measured only if self.rtc_action_queue is not None
                /\ rtc_action_queue.exists \/ real_delay = 0
                /\ IF policy = "none" \/ outcome = "prepare_raises"
                   THEN /\ Called("GetActions", NoRequest, GetActionsOnError)
                        /\ UNCHANGED <<last_processed_obs, rtc_action_queue>>
                   ELSE /\ last_processed_obs' = preprocessed(o, last_processed_obs)
                        /\ IF outcome = "infer_raises"
                           THEN /\ Called("GetActions", NoRequest, GetActionsOnError)
                                /\ UNCHANGED rtc_action_queue
                           ELSE IF rtc_action_queue.exists /\ StaleInference(real_delay)
                           THEN /\ Inferred(real_delay, GetActionsOnError)
                                /\ UNCHANGED rtc_action_queue
                           ELSE /\ rtc_action_queue' =
                                       IF rtc_action_queue.exists
                                       THEN merge(rtc_action_queue, original, processed,
                                                  real_delay, rtc_action_queue.committed_index)
                                       ELSE rtc_action_queue
                                /\ Inferred(real_delay, Actions(action_chunk))
    /\ UNCHANGED <<shutdown_event, policy, actions_per_chunk, nsent, rtc_config, device,
                   policy_type, lerobot_features, rtc_processor, unserved>>

NextSerial ==
    \/ Serial_Ready
    \/ \E request \in Requests, load_ok \in BOOLEAN :
           Serial_SendPolicyInstructions(request, load_ok)
    \/ \E k \in Timesteps, mg \in BOOLEAN, similar \in BOOLEAN :
           Serial_SendObservations(k, mg, similar)
    \/ \E real_delay \in 0..MaxDelay, outcome \in {"returns", "prepare_raises", "infer_raises"} :
           Serial_GetActions(real_delay, outcome)

SpecSerial == Init /\ [][NextSerial]_vars

(* ------------- the handlers of the pool and the ActionQueue ------------ *)

\* the requests that configure a supported policy
SupportedRequests == {request \in Requests : request.policy_type \in SUPPORTED_POLICIES}

\* a write to self.rtc_action_queue by handler h, or its replacement: the
\* other inferences in progress no longer work on the queue they read
Overwrite(h, how) ==
    [g \in Handlers |-> IF g # h /\ snapshots[g] = "held" THEN how ELSE snapshots[g]]

\* the configuration and the RTC components left alone
rtc_same == <<rtc_config, device, policy_type, lerobot_features, rtc_processor,
              rtc_action_queue>>

\* _reset_server, after the lock is released: reset RTC state
RTC_Ready_reset_predicted(h) ==
    /\ Ready_reset_predicted(h)
    /\ rtc_action_queue' = reset_rtc_action_queue(rtc_action_queue, rtc_config)
    /\ snapshots' = IF rtc_action_queue.exists THEN Overwrite(h, "overwritten") ELSE snapshots
    /\ UNCHANGED <<rtc_config, device, policy_type, lerobot_features, rtc_processor>>

\* SendPolicyInstructions with its RTC part: a successful load installs the
\* configuration and creates or drops the RTC components
RTC_SendPolicyInstructions(h, request) ==
    /\ SendPolicyInstructions(h, request.actions_per_chunk)
    /\ IF shutdown_event
       THEN UNCHANGED <<rtc_same, snapshots>>
       ELSE /\ rtc_config' = request.rtc_config
            /\ device' = request.device
            /\ policy_type' = request.policy_type
            /\ lerobot_features' = request.lerobot_features
            /\ IF request.rtc_config.present /\ request.rtc_config.enabled
               THEN /\ rtc_processor' = "RTCProcessor"
                    /\ rtc_action_queue' = ActionQueue(request.rtc_config)
               ELSE /\ rtc_processor' = "None"
                    /\ rtc_action_queue' = NoActionQueue
            /\ snapshots' = Overwrite(h, "reconfigured")

\* _predict_action_chunk: action_index_before_inference =
\* self.rtc_action_queue.get_action_index() if self.rtc_action_queue else None,
\* then 1. and 2.
RTC_predict_prepare(h, ok) ==
    /\ predict_prepare(h, ok)
    /\ snapshots' = [snapshots EXCEPT ![h] =
                        IF rtc_action_queue.exists /\ policy # "none" /\ ok
                        THEN "held" ELSE "none"]
    /\ UNCHANGED rtc_same

\* _predict_action_chunk, 3. to 6.: the inference, then
\* if self.rtc_action_queue is not None: self.rtc_action_queue.merge(...)
RTC_predict_infer(h, ok, real_delay) ==
    /\ rtc_action_queue.exists \/ real_delay = 0
    /\ predict_infer(h, ok /\ ~(rtc_action_queue.exists /\ StaleInference(real_delay)))
    /\ IF ok /\ rtc_action_queue.exists /\ ~StaleInference(real_delay)
       THEN LET original == original_actions_of(actions_per_chunk)
            IN  /\ rtc_action_queue' =
                       merge(rtc_action_queue, original, processed_actions_of(original),
                             real_delay, rtc_action_queue.committed_index)
                /\ snapshots' = [Overwrite(h, "overwritten") EXCEPT ![h] = "none"]
       ELSE /\ snapshots' = [snapshots EXCEPT ![h] = "none"]
            /\ UNCHANGED rtc_action_queue
    /\ UNCHANGED <<rtc_config, device, policy_type, lerobot_features, rtc_processor>>

\* the steps that touch neither the configuration nor the ActionQueue
rtc_idle == <<timing, setup, inference, teleop, pad, locks, denoise>>

NextRTC ==
    \/ \E h \in Handlers : Release(h) /\ UNCHANGED rtc_idle
    \/ \E h \in Handlers : NoneDone /\ Ready_reset_queue(h) /\ UNCHANGED rtc_idle
    \/ \E h \in Handlers :
           NoneDone /\ RTC_Ready_reset_predicted(h) /\ UNCHANGED <<timing, last_call, taken_since_reset, teleop, pad, locks, denoise>>
    \/ \E h \in Handlers, request \in SupportedRequests :
           NoneDone /\ RTC_SendPolicyInstructions(h, request) /\ UNCHANGED <<timing, last_call, taken_since_reset, teleop, pad, locks, denoise>>
    \/ \E h \in Handlers, k \in Timesteps, mg \in BOOLEAN, similar \in BOOLEAN :
           NoneDone /\ SendObservations_enqueue(h, k, mg, similar) /\ UNCHANGED rtc_idle
    \/ \E h \in Handlers : NoneDone /\ SendObservations_get_nowait(h) /\ UNCHANGED rtc_idle
    \/ \E h \in Handlers : NoneDone /\ SendObservations_put(h) /\ UNCHANGED rtc_idle
    \/ \E h \in Handlers : NoneDone /\ SendObservations_put_wakes(h) /\ UNCHANGED rtc_idle
    \/ \E h \in Handlers : NoneDone /\ GetActions_get(h) /\ UNCHANGED rtc_idle
    \/ \E h \in Handlers : NoneDone /\ GetActions_get_wakes(h) /\ UNCHANGED rtc_idle
    \/ \E h \in Handlers : NoneDone /\ GetActions_timeout(h) /\ UNCHANGED rtc_idle
    \/ \E h \in Handlers : NoneDone /\ GetActions_add(h) /\ UNCHANGED rtc_idle
    \/ \E h \in Handlers, ok \in BOOLEAN :
           NoneDone /\ RTC_predict_prepare(h, ok) /\ UNCHANGED <<timing, last_call, taken_since_reset, teleop, pad, locks, denoise>>
    \/ \E h \in Handlers, ok \in BOOLEAN, real_delay \in 0..MaxDelay :
           NoneDone /\ RTC_predict_infer(h, ok, real_delay) /\ UNCHANGED <<timing, last_call, taken_since_reset, teleop, pad, locks, denoise>>

SpecRTC == Init /\ [][NextRTC]_vars

(* ------------------------------ XboxTeleop ----------------------------- *)

Abs(x) == IF x < 0 THEN -x ELSE x

\* XboxTeleop._apply_deadzone: 0.0 below the deadzone, beyond it
\* sign * (abs(value) - deadzone) / (1.0 - deadzone), in units of 1 / StickRange
apply_deadzone(value) ==
    IF Abs(value) < deadzone THEN 0
    ELSE (IF value >= 0 THEN 1 ELSE -1) * (Abs(value) - deadzone)

\* mutant of clip: the position is stored as computed
clip_none(x, lo, hi) == x

\* np.clip
clip(x, lo, hi) == IF x < lo THEN lo ELSE IF x > hi THEN hi ELSE x

\* get_action, "Skip control if not initialized yet": every joint at 0.0 and
\* the stored base velocities
uninitialized_action(self) ==
    [arm |-> [j \in Joints |-> 0], base |-> self.base_velocities]

\* XboxTeleop.get_action(observation) with the controller reading `reading`:
\* the object after the call and the action returned
get_action(self, observation, reading) ==
    LET lx == apply_deadzone(reading.axis["lx"])
        ly == apply_deadzone(reading.axis["ly"])
        rx == apply_deadzone(reading.axis["rx"])
        ry == apply_deadzone(reading.axis["ry"])
        lt == apply_deadzone(Max(0, reading.axis["lt"]))
        rt == apply_deadzone(Max(0, reading.axis["rt"]))
        initializes == ~self.initialized /\ observation.present
        start == IF initializes THEN observation.pos ELSE self.arm_positions
    IN  IF ~(self.initialized \/ initializes)
        THEN [self |-> self, action |-> uninitialized_action(self)]
        ELSE LET speed == arm_speed * self.arm_speed_multiplier
                 arm_delta ==
                     [j \in Joints |->
                         CASE j = "arm_wrist_roll" -> lx * speed
                           [] j = "arm_wrist_flex" -> -ly * speed
                           [] j = "arm_shoulder_pan" -> reading.dpad_x * StickRange * speed
                           [] j = "arm_shoulder_lift" -> reading.dpad_y * StickRange * speed
                           [] j = "arm_elbow_flex" -> IF reading.LS THEN lx * speed ELSE 0
                           [] j = "arm_gripper" -> (rt - lt) * gripper_speed]
                 arm_positions ==
                     [j \in Joints |->
                         IF j = "arm_gripper"
                         THEN clip(start[j] + arm_delta[j], -GripperLimit, GripperLimit)
                         ELSE clip(start[j] + arm_delta[j], -TwoPi, TwoPi)]
                 base_velocities ==
                     [k \in BaseKeys |->
                         CASE k = "y.vel" -> -lx * base_linear_vel * stick_scale
                           [] k = "x.vel" -> -ry * base_linear_vel * stick_scale
                           [] k = "theta.vel" -> -rx * base_angular_vel * stick_scale]
             IN  [self |-> [initialized |-> TRUE,
                            arm_positions |-> arm_positions,
                            base_velocities |-> base_velocities,
                            arm_speed_multiplier |-> IF reading.RB THEN 2 ELSE 1],
                  action |-> [arm |-> arm_positions, base |-> base_velocities]]

\* one call of get_action by any caller, with or without an observation
XboxTeleop_get_action(observation, reading) ==
    /\ ncalls < MaxCalls
    /\ ncalls' = ncalls + 1
    /\ controller' = reading
    /\ LET result == get_action(xbox, observation, reading)
       IN  /\ xbox' = result.self
           /\ xbox_action' = result.action
    /\ previous_action' = xbox_action
    /\ UNCHANGED <<hybrid_action, hybrid_running>>

\* get_action calls on a connected object: the test of is_connected at the
\* head of get_action is a step of SpecConnection

NextXbox ==
    \E observation \in Observations, reading \in Readings :
        /\ XboxTeleop_get_action(observation, reading)
        /\ UNCHANGED <<connection, threads, timing, setup, inference, pad, locks, denoise>>

SpecXbox == Init /\ [][NextXbox]_vars

\* teleoperate_xbox_hybrid.py with USE_KEYBOARD_FOR_BASE = False, one iteration
\* of the loop: xbox.get_action(), the arm keys renamed to "<joint>.pos", the
\* base keys taken from the Xbox action, robot.send_action(action), then
\* get_teleop_events: Back or B ends the loop
Hybrid_loop(reading, terminate_episode) ==
    /\ hybrid_running
    /\ controller' = reading
    /\ LET result == get_action(xbox, NoObservation, reading)
       IN  /\ xbox' = result.self
           /\ xbox_action' = result.action
           /\ hybrid_action' = [arm |-> result.action.arm, base |-> result.action.base]
    /\ previous_action' = xbox_action
    /\ hybrid_running' = ~terminate_episode
    /\ UNCHANGED ncalls

NextHybrid ==
    \E reading \in Readings, terminate_episode \in BOOLEAN :
        /\ Hybrid_loop(reading, terminate_episode)
        /\ UNCHANGED <<connection, threads, timing, setup, inference, pad, locks, denoise>>

SpecHybrid == Init /\ [][NextHybrid]_vars

(* ------------- XboxTeleop: connect, disconnect, get_action ------------- *)

\* mutant of is_connected: the object never reports a connection
is_connected_never(flag, object) == FALSE

\* the property is_connected: self._is_connected and self.controller is not None
is_connected(flag, object) == flag /\ object # "None"

\* what a call leaves alone besides the fields it assigns
connection_idle == <<xbox, controller, xbox_action, previous_action, ncalls,
                     hybrid_action, hybrid_running>>

\* one more call, of method m
Call(m) ==
    /\ nconn < MaxConnectionCalls
    /\ nconn' = nconn + 1
    /\ called' = m

\* XboxTeleop.connect(): importable says whether import pygame succeeds (it
\* does once the object holds the module), count is what
\* pygame.joystick.get_count() returns
XboxTeleop_connect(importable, count) ==
    /\ Call("connect")
    /\ pygame # "None" => importable
    /\ IF is_connected(_is_connected, joystick_object)
       THEN /\ raised' = "DeviceAlreadyConnectedError"
            /\ UNCHANGED <<_is_connected, joystick_object, pygame, pygame_initialized,
                           last_successful>>
       ELSE IF ~importable
       THEN /\ raised' = "ImportError"
            /\ UNCHANGED <<_is_connected, joystick_object, pygame, pygame_initialized,
                           last_successful>>
       ELSE /\ pygame' = "module"
            /\ pygame_initialized' = TRUE
            /\ IF count = 0
               THEN /\ raised' = "RuntimeError"
                    /\ UNCHANGED <<_is_connected, joystick_object, last_successful>>
               ELSE /\ joystick_object' = "Joystick"
                    /\ _is_connected' = TRUE
                    /\ raised' = "none"
                    /\ last_successful' = "connect"
    /\ UNCHANGED connection_idle

\* XboxTeleop.disconnect()
XboxTeleop_disconnect ==
    /\ Call("disconnect")
    /\ IF ~is_connected(_is_connected, joystick_object)
       THEN /\ raised' = "DeviceNotConnectedError"
            /\ UNCHANGED <<_is_connected, joystick_object, pygame, pygame_initialized,
                           last_successful>>
       ELSE /\ joystick_object' = "None"
            /\ _is_connected' = FALSE
            /\ pygame_initialized' = IF pygame # "None" THEN FALSE
                                     ELSE pygame_initialized
            /\ raised' = "none"
            /\ last_successful' = "disconnect"
            /\ UNCHANGED pygame
    /\ UNCHANGED connection_idle

\* XboxTeleop.get_action(observation), from its first line: the test of
\* is_connected, then the call as in XboxTeleop_get_action
Connection_get_action(observation, reading) ==
    /\ Call("get_action")
    /\ IF ~is_connected(_is_connected, joystick_object)
       THEN /\ raised' = "DeviceNotConnectedError"
            /\ UNCHANGED connection_idle
       ELSE /\ ncalls < MaxConnectedCalls
            /\ raised' = "none"
            /\ XboxTeleop_get_action(observation, reading)
    /\ UNCHANGED <<_is_connected, joystick_object, pygame, pygame_initialized,
                   last_successful>>

NextConnection ==
    \/ \E importable \in BOOLEAN, count \in {0, 1} :
           /\ XboxTeleop_connect(importable, count)
           /\ UNCHANGED <<threads, timing, setup, inference, pad, locks, denoise>>
    \/ XboxTeleop_disconnect /\ UNCHANGED <<threads, timing, setup, inference, pad, locks, denoise>>
    \/ \E observation \in Observations, reading \in Readings :
           /\ Connection_get_action(observation, reading)
           /\ UNCHANGED <<threads, timing, setup, inference, pad, locks, denoise>>

SpecConnection == Init /\ [][NextConnection]_vars

(* ------------------- teleoperate_xbox_controller.py -------------------- *)

\* controller_to_base_action: the sticks beyond DEADZONE, scaled by the base
\* velocities and by the speed multiplier of the triggers (1.0 + rt, or
\* 1.0 - 0.7 * lt, in units of 1 / (10 * AxisUnit))
controller_to_base_action(joystick) ==
    LET forward_back == IF Abs(joystick["ABS_Y"]) > DEADZONE THEN -joystick["ABS_Y"] ELSE 0
        strafe == IF Abs(joystick["ABS_X"]) > DEADZONE THEN joystick["ABS_X"] ELSE 0
        rotate == IF Abs(joystick["ABS_RX"]) > DEADZONE THEN joystick["ABS_RX"] ELSE 0
        rt_value == IF Max(0, joystick["ABS_RZ"]) > TriggerThreshold
                    THEN Max(0, joystick["ABS_RZ"]) ELSE 0
        lt_value == IF Max(0, joystick["ABS_Z"]) > TriggerThreshold
                    THEN Max(0, joystick["ABS_Z"]) ELSE 0
        speed_mult == IF rt_value > TriggerThreshold THEN 10 * AxisUnit + 10 * rt_value
                      ELSE IF lt_value > TriggerThreshold THEN 10 * AxisUnit - 7 * lt_value
                      ELSE 10 * AxisUnit
    IN  [k \in BaseKeys |->
            CASE k = "x.vel" -> forward_back * BASE_LINEAR_VEL * speed_mult
              [] k = "y.vel" -> strafe * BASE_LINEAR_VEL * speed_mult
              [] k = "theta.vel" -> rotate * BASE_ANGULAR_VEL * speed_mult]

\* if joystick.button_b: emergency_stopped = not emergency_stopped
toggled(stopped, button_b) == IF button_b = 1 THEN ~stopped ELSE stopped

\* one iteration of the main control loop: read_input takes the events of
\* this iteration (at most one of the B button, the new state of the axes,
\* whether Back/Select is down); Back/Select leaves main, whose finally
\* sends the stop action; otherwise B toggles the emergency stop and the
\* action is sent
Controller_loop(event, analog, button_select) ==
    /\ controller_running
    /\ event = "press" => button_state = 0
    /\ b_event' = event
    /\ button_state' = CASE event = "press" -> 1
                         [] event = "release" -> 0
                         [] OTHER -> button_state
    /\ analog_state' = analog
    /\ IF button_select
       THEN /\ controller_running' = FALSE
            /\ base_action' = ZeroVelocities
            /\ UNCHANGED emergency_stopped
       ELSE /\ emergency_stopped' = toggled(emergency_stopped, button_state')
            /\ base_action' = IF emergency_stopped' THEN ZeroVelocities
                              ELSE controller_to_base_action(analog)
            /\ UNCHANGED controller_running

\* the controller disconnects (read_input raises IOError) or the observation
\* fails: zero velocities are sent and a new XboxController is created, with
\* every axis at 0 and no button down
Controller_reconnect ==
    /\ controller_running
    /\ b_event' = "none"
    /\ button_state' = 0
    /\ analog_state' = NoAnalog
    /\ base_action' = ZeroVelocities
    /\ UNCHANGED <<emergency_stopped, controller_running>>

NextController ==
    \/ \E event \in {"none", "press", "release"}, analog \in AnalogStates,
          button_select \in BOOLEAN :
           /\ Controller_loop(event, analog, button_select)
           /\ UNCHANGED <<program, threads, timing, setup, inference, teleop, locks, denoise>>
    \/ Controller_reconnect /\ UNCHANGED <<program, threads, timing, setup, inference, teleop, locks, denoise>>

SpecController == Init /\ [][NextController]_vars

(* ---------- teleoperate_xbox_controller.py: main, exit by exit --------- *)

\* mutant of stop_action: the velocities of a moving base
stop_action_moving == [k \in BaseKeys |-> BASE_LINEAR_VEL]

\* the action built where the control loop is not running: "x.vel", "y.vel"
\* and "theta.vel" at 0.0
stop_action == ZeroVelocities

\* what robot.send_action does: it returns, or it raises an exception that
\* except IOError catches (ConnectionError is an OSError), or another one
SendOutcomes == {"returns", "IOError", "Exception"}

\* what read_input leaves in analog_state in an iteration of main: nothing
\* touched, the left stick pushed forward, or the right stick and the right
\* trigger deflected
StickStates == {NoAnalog, [NoAnalog EXCEPT !["ABS_Y"] = -AxisUnit],
                [NoAnalog EXCEPT !["ABS_RX"] = 600, !["ABS_RZ"] = 600]}

\* robot.send_action(action) returned
Sent(action) ==
    /\ base_action' = action
    /\ actions_sent' = actions_sent + 1
    /\ stop_pending' = FALSE

\* robot.send_action raised: nothing was sent
NotSent == UNCHANGED <<base_action, actions_sent>>

\* the control loop is left because of `reason`, main goes on at `position`
LeaveLoop(reason, position) ==
    /\ left_by' = reason
    /\ stop_pending' = TRUE
    /\ main_pc' = position
    /\ controller_running' = (position # "finally")

\* top of the outer loop with joystick None: XboxController() finds the
\* controller, every axis at 0 and no button down, or raises IOError
Main_connect(found) ==
    /\ main_pc = "connect"
    /\ main_pc' = IF found THEN "loop" ELSE "except"
    /\ b_event' = "none"
    /\ button_state' = 0
    /\ analog_state' = NoAnalog
    /\ UNCHANGED <<emergency_stopped, base_action, controller_running, left_by,
                   stop_pending, actions_sent, robot_disconnected>>

\* one iteration of the control loop: read_input raises IOError ("controller"),
\* or robot.get_observation raises ("observation"), or both return; then
\* Back/Select returns from main, otherwise B toggles the emergency stop and
\* the action is handed to robot.send_action, which returns or raises
Main_loop(event, analog, button_select, failure, send) ==
    /\ main_pc = "loop"
    /\ actions_sent < MaxActions
    /\ event = "press" => button_state = 0
    /\ IF failure = "controller"
       THEN /\ LeaveLoop("controller", "retry")
            /\ UNCHANGED <<b_event, button_state, analog_state, emergency_stopped,
                           base_action, actions_sent>>
       ELSE /\ b_event' = event
            /\ button_state' = CASE event = "press" -> 1
                                 [] event = "release" -> 0
                                 [] OTHER -> button_state
            /\ analog_state' = analog
            /\ IF failure = "observation"
               THEN /\ LeaveLoop("observation", "retry")
                    /\ UNCHANGED <<emergency_stopped, base_action, actions_sent>>
               ELSE IF button_select
               THEN /\ LeaveLoop("quit", "finally")
                    /\ UNCHANGED <<emergency_stopped, base_action, actions_sent>>
               ELSE /\ emergency_stopped' = toggled(emergency_stopped, button_state')
                    /\ CASE send = "returns" ->
                                /\ Sent(IF emergency_stopped' THEN ZeroVelocities
                                        ELSE controller_to_base_action(analog))
                                /\ UNCHANGED <<main_pc, left_by, controller_running>>
                         [] send = "IOError" ->
                                LeaveLoop("exception", "except") /\ NotSent
                         [] OTHER ->
                                LeaveLoop("exception", "finally") /\ NotSent
    /\ UNCHANGED robot_disconnected

\* after the control loop, joystick is None: the zero velocities are sent
\* and main sleeps before it connects again
Main_retry(send) ==
    /\ main_pc = "retry"
    /\ actions_sent < MaxActions
    /\ CASE send = "returns" -> Sent(stop_action) /\ main_pc' = "connect"
         [] send = "IOError" -> NotSent /\ main_pc' = "except" /\ UNCHANGED stop_pending
         [] OTHER -> NotSent /\ main_pc' = "finally" /\ UNCHANGED stop_pending
    /\ controller_running' = (main_pc' # "finally")
    /\ UNCHANGED <<button_state, analog_state, emergency_stopped, b_event, left_by,
                   robot_disconnected>>

\* except IOError: the zero velocities are sent, joystick = None, main sleeps
\* and goes back to the top of the outer loop; an exception raised here is
\* not caught before the finally
Main_except(send) ==
    /\ main_pc = "except"
    /\ actions_sent < MaxActions
    /\ IF send = "returns"
       THEN Sent(stop_action) /\ main_pc' = "connect"
       ELSE NotSent /\ main_pc' = "finally" /\ UNCHANGED stop_pending
    /\ controller_running' = (main_pc' # "finally")
    /\ UNCHANGED <<button_state, analog_state, emergency_stopped, b_event, left_by,
                   robot_disconnected>>

\* KeyboardInterrupt, raised wherever main is inside its outer try
Main_KeyboardInterrupt ==
    /\ main_pc \in {"connect", "loop", "retry", "except"}
    /\ IF main_pc = "loop"
       THEN LeaveLoop("KeyboardInterrupt", "finally")
       ELSE /\ main_pc' = "finally"
            /\ controller_running' = FALSE
            /\ UNCHANGED <<left_by, stop_pending>>
    /\ UNCHANGED <<button_state, analog_state, emergency_stopped, base_action, b_event,
                   actions_sent, robot_disconnected>>

\* finally: robot.send_action(stop_action); if it raises, main ends without
\* calling robot.disconnect()
Main_finally(send) ==
    /\ main_pc = "finally"
    /\ IF send = "returns"
       THEN Sent(stop_action) /\ main_pc' = "disconnect"
       ELSE NotSent /\ main_pc' = "done" /\ UNCHANGED stop_pending
    /\ UNCHANGED <<button_state, analog_state, emergency_stopped, b_event,
                   controller_running, left_by, robot_disconnected>>

\* finally: robot.disconnect()
Main_disconnect ==
    /\ main_pc = "disconnect"
    /\ main_pc' = "done"
    /\ robot_disconnected' = TRUE
    /\ UNCHANGED <<button_state, analog_state, emergency_stopped, base_action, b_event,
                   controller_running, left_by, stop_pending, actions_sent>>

main_idle == <<threads, timing, setup, inference, teleop, locks, denoise>>

NextMain ==
    \/ \E found \in BOOLEAN : Main_connect(found) /\ UNCHANGED main_idle
    \/ \E event \in {"none", "press", "release"}, analog \in StickStates,
          button_select \in BOOLEAN,
          failure \in {"none", "controller", "observation"}, send \in SendOutcomes :
           Main_loop(event, analog, button_select, failure, send) /\ UNCHANGED main_idle
    \/ \E send \in SendOutcomes : Main_retry(send) /\ UNCHANGED main_idle
    \/ \E send \in SendOutcomes : Main_except(send) /\ UNCHANGED main_idle
    \/ Main_KeyboardInterrupt /\ UNCHANGED main_idle
    \/ \E send \in SendOutcomes : Main_finally(send) /\ UNCHANGED main_idle
    \/ Main_disconnect /\ UNCHANGED main_idle

SpecMain == Init /\ [][NextMain]_vars

(* ------------------------- the locks of the server --------------------- *)

\* what the steps on the locks leave alone
lock_idle == <<observation_queue, old_queues, server, obs, flags, history, timing, setup,
               inference, teleop, pad, denoise>>

\* the pool starts call number nrpcs + 1
Called_by_pool == nrpcs < MaxRPCs /\ nrpcs' = nrpcs + 1

\* handler h enters a method of the object self.observation_queue is bound to
\* and acquires its mutex (the with self.mutex / with self.not_empty /
\* with self.not_full of queue.Queue)
acquire_mutex(h) ==
    /\ queue_objects[inbox].mutex = 0
    /\ queue_objects' = [queue_objects EXCEPT ![inbox].mutex = h]
    /\ on_queue' = [on_queue EXCEPT ![h] = inbox]

\* handler h comes back from Condition.wait inside its queue object: it has
\* the mutex again
reacquire_mutex(h) ==
    /\ queue_objects[on_queue[h]].mutex = 0
    /\ queue_objects' = [queue_objects EXCEPT ![on_queue[h]].mutex = h]

\* handler h leaves the mutex of its queue object, whose qsize is now n
release_mutex(h, n) ==
    queue_objects' = [queue_objects EXCEPT ![on_queue[h]] = [mutex |-> 0, qsize |-> n]]

qsize(h) == queue_objects[on_queue[h]].qsize

\* mutant of sanity_release: the lock of _obs_sanity_checks is kept while the
\* observation is enqueued
sanity_release_kept(h) == h

\* _obs_sanity_checks, the end of with self._predicted_timesteps_lock: the
\* lock is free when the block is left
sanity_release(h) == 0

\* mutant of timeouts: get(timeout=None), the wait never expires
timeouts_none == {FALSE}

\* get(timeout=self.config.obs_queue_timeout): the timeout may have passed
\* when the wait ends
timeouts == BOOLEAN

\* GetActions: the call reaches self.observation_queue.get(timeout=...)
Lk_GetActions(h) ==
    /\ Free(h)
    /\ Called_by_pool
    /\ Start(h, "GetActions", "get_mutex")
    /\ UNCHANGED <<predicted_timesteps_lock, queue_objects, inbox, on_queue, expired, resp>>

\* Queue.get: with self.not_empty
Lk_get_mutex(h) ==
    /\ pc[h] = "get_mutex"
    /\ acquire_mutex(h)
    /\ Goto(h, "get")
    /\ UNCHANGED <<predicted_timesteps_lock, inbox, expired, nrpcs, rpc, resp>>

\* Queue.get under the mutex: while not self._qsize(): raise Empty once the
\* time is over, self.not_empty.wait(remaining) otherwise (the wait releases
\* the mutex); then item = self._get(), self.not_full.notify()
Lk_get(h) ==
    /\ pc[h] = "get"
    /\ IF qsize(h) > 0
       THEN /\ release_mutex(h, qsize(h) - 1)
            /\ Goto(h, "add_lock")
            /\ UNCHANGED resp
       ELSE IF expired[h]
       THEN /\ release_mutex(h, qsize(h))
            /\ Return(h, GetActionsOnEmpty)
       ELSE /\ release_mutex(h, qsize(h))
            /\ Goto(h, "get_wait")
            /\ UNCHANGED resp
    /\ UNCHANGED <<predicted_timesteps_lock, inbox, on_queue, expired, nrpcs, rpc>>

\* self.not_empty.wait(remaining) ends, on a notify of put or on the timeout,
\* and takes the mutex again
Lk_get_wait(h, timeout) ==
    /\ pc[h] = "get_wait"
    /\ timeout \/ qsize(h) > 0
    /\ reacquire_mutex(h)
    /\ expired' = [expired EXCEPT ![h] = timeout]
    /\ Goto(h, "get")
    /\ UNCHANGED <<predicted_timesteps_lock, inbox, on_queue, nrpcs, rpc, resp>>

\* with self._predicted_timesteps_lock: (line 263)
Lk_add_lock(h) ==
    /\ pc[h] = "add_lock"
    /\ predicted_timesteps_lock = 0
    /\ predicted_timesteps_lock' = h
    /\ Goto(h, "add")
    /\ UNCHANGED <<queue_objects, inbox, on_queue, expired, nrpcs, rpc, resp>>

\*     self._predicted_timesteps.add(obs.get_timestep()), and the block ends
Lk_add(h) ==
    /\ pc[h] = "add"
    /\ predicted_timesteps_lock' = 0
    /\ Goto(h, "predict")
    /\ UNCHANGED <<queue_objects, inbox, on_queue, expired, nrpcs, rpc, resp>>

\* _predict_action_chunk, pickle.dumps, time.sleep: no lock, no queue; the
\* chunk is returned, or Empty after an exception
Lk_predict(h, ok) ==
    /\ pc[h] = "predict"
    /\ Return(h, IF ok THEN Actions(<<>>) ELSE GetActionsOnError)
    /\ UNCHANGED <<locks, rpc>>

\* SendObservations, _enqueue_observation: checks tells whether the condition
\* reaches _obs_sanity_checks (not must_go, and an observation was processed)
Lk_SendObservations(h, checks) ==
    /\ Free(h)
    /\ Called_by_pool
    /\ Start(h, "SendObservations", IF checks THEN "sanity_lock" ELSE "full_mutex")
    /\ UNCHANGED <<predicted_timesteps_lock, queue_objects, inbox, on_queue, expired, resp>>

\* _obs_sanity_checks: with self._predicted_timesteps_lock: (line 305)
Lk_sanity_lock(h) ==
    /\ pc[h] = "sanity_lock"
    /\ predicted_timesteps_lock = 0
    /\ predicted_timesteps_lock' = h
    /\ Goto(h, "sanity")
    /\ UNCHANGED <<queue_objects, inbox, on_queue, expired, nrpcs, rpc, resp>>

\*     predicted_timesteps = self._predicted_timesteps, the block ends,
\* and the checks accept the observation or filter it out
Lk_sanity(h, accepted) ==
    /\ pc[h] = "sanity"
    /\ predicted_timesteps_lock' = sanity_release(h)
    /\ IF accepted
       THEN Goto(h, "full_mutex") /\ UNCHANGED resp
       ELSE Return(h, Empty)
    /\ UNCHANGED <<queue_objects, inbox, on_queue, expired, nrpcs, rpc>>

\* self.observation_queue.full(): with self.mutex
Lk_full_mutex(h) ==
    /\ pc[h] = "full_mutex"
    /\ acquire_mutex(h)
    /\ Goto(h, "full")
    /\ UNCHANGED <<predicted_timesteps_lock, inbox, expired, nrpcs, rpc, resp>>

\*     return 0 < self.maxsize <= self._qsize()
Lk_full(h) ==
    /\ pc[h] = "full"
    /\ release_mutex(h, qsize(h))
    /\ Goto(h, IF 0 < maxsize /\ maxsize <= qsize(h) THEN "get_nowait_mutex" ELSE "put_mutex")
    /\ UNCHANGED <<predicted_timesteps_lock, inbox, on_queue, expired, nrpcs, rpc, resp>>

\* self.observation_queue.get_nowait(): with self.not_empty
Lk_get_nowait_mutex(h) ==
    /\ pc[h] = "get_nowait_mutex"
    /\ acquire_mutex(h)
    /\ Goto(h, "get_nowait")
    /\ UNCHANGED <<predicted_timesteps_lock, inbox, expired, nrpcs, rpc, resp>>

\*     if not self._qsize(): raise Empty; item = self._get()
Lk_get_nowait(h) ==
    /\ pc[h] = "get_nowait"
    /\ IF qsize(h) = 0
       THEN /\ release_mutex(h, qsize(h))
            /\ Return(h, Raised)
       ELSE /\ release_mutex(h, qsize(h) - 1)
            /\ Goto(h, "put_mutex")
            /\ UNCHANGED resp
    /\ UNCHANGED <<predicted_timesteps_lock, inbox, on_queue, expired, nrpcs, rpc>>

\* self.observation_queue.put(obs): with self.not_full
Lk_put_mutex(h) ==
    /\ pc[h] = "put_mutex"
    /\ acquire_mutex(h)
    /\ Goto(h, "put")
    /\ UNCHANGED <<predicted_timesteps_lock, inbox, expired, nrpcs, rpc, resp>>

\*     while self._qsize() >= self.maxsize: self.not_full.wait() (the wait
\*     releases the mutex); self._put(item), self.not_empty.notify()
Lk_put(h) ==
    /\ pc[h] = "put"
    /\ IF qsize(h) >= maxsize
       THEN /\ release_mutex(h, qsize(h))
            /\ Goto(h, "put_wait")
            /\ UNCHANGED resp
       ELSE /\ release_mutex(h, qsize(h) + 1)
            /\ Return(h, Empty)
    /\ UNCHANGED <<predicted_timesteps_lock, inbox, on_queue, expired, nrpcs, rpc>>

\* self.not_full.wait() ends on the notify of a get and takes the mutex again
Lk_put_wait(h) ==
    /\ pc[h] = "put_wait"
    /\ qsize(h) < maxsize
    /\ reacquire_mutex(h)
    /\ Goto(h, "put")
    /\ UNCHANGED <<predicted_timesteps_lock, inbox, on_queue, expired, nrpcs, rpc, resp>>

\* Ready, _reset_server: self.observation_queue = Queue(maxsize=1) binds the
\* attribute to a new object; the handlers inside the old one stay there
Lk_Ready(h) ==
    /\ Free(h)
    /\ Called_by_pool
    /\ Start(h, "Ready", "reset_lock")
    /\ queue_objects' = Append(queue_objects, Queue)
    /\ inbox' = Len(queue_objects) + 1
    /\ UNCHANGED <<predicted_timesteps_lock, on_queue, expired, resp>>

\* _reset_server: with self._predicted_timesteps_lock: (line 117)
Lk_reset_lock(h) ==
    /\ pc[h] = "reset_lock"
    /\ predicted_timesteps_lock = 0
    /\ predicted_timesteps_lock' = h
    /\ Goto(h, "reset")
    /\ UNCHANGED <<queue_objects, inbox, on_queue, expired, nrpcs, rpc, resp>>

\*     self._predicted_timesteps = set(), the block ends; the ActionQueue is
\* replaced, the shutdown event cleared, and Ready returns Empty
Lk_reset(h) ==
    /\ pc[h] = "reset"
    /\ predicted_timesteps_lock' = 0
    /\ Return(h, Empty)
    /\ UNCHANGED <<queue_objects, inbox, on_queue, expired, nrpcs, rpc>>

\* SendPolicyInstructions takes no lock and uses no queue
Lk_SendPolicyInstructions(h) ==
    /\ Free(h)
    /\ Called_by_pool
    /\ StartReturn(h, "SendPolicyInstructions", Empty)
    /\ UNCHANGED <<predicted_timesteps_lock, queue_objects, inbox, on_queue, expired>>

\* the response has gone to the client and the thread is free again
Lk_Release(h) ==
    /\ Release(h)
    /\ on_queue' = [on_queue EXCEPT ![h] = 0]
    /\ expired' = [expired EXCEPT ![h] = FALSE]
    /\ UNCHANGED <<predicted_timesteps_lock, queue_objects, inbox, nrpcs, timing, setup,
                   inference, teleop, pad, denoise>>

\* the steps handler h takes inside a call, once the pool has started it
Lk_step(h) ==
    \/ Lk_get_mutex(h) /\ UNCHANGED lock_idle
    \/ Lk_get(h) /\ UNCHANGED lock_idle
    \/ \E timeout \in timeouts : Lk_get_wait(h, timeout) /\ UNCHANGED lock_idle
    \/ Lk_add_lock(h) /\ UNCHANGED lock_idle
    \/ Lk_add(h) /\ UNCHANGED lock_idle
    \/ \E ok \in BOOLEAN : Lk_predict(h, ok) /\ UNCHANGED lock_idle
    \/ \E accepted \in BOOLEAN : Lk_sanity(h, accepted) /\ UNCHANGED lock_idle
    \/ Lk_sanity_lock(h) /\ UNCHANGED lock_idle
    \/ Lk_full_mutex(h) /\ UNCHANGED lock_idle
    \/ Lk_full(h) /\ UNCHANGED lock_idle
    \/ Lk_get_nowait_mutex(h) /\ UNCHANGED lock_idle
    \/ Lk_get_nowait(h) /\ UNCHANGED lock_idle
    \/ Lk_put_mutex(h) /\ UNCHANGED lock_idle
    \/ Lk_put(h) /\ UNCHANGED lock_idle
    \/ Lk_put_wait(h) /\ UNCHANGED lock_idle
    \/ Lk_reset_lock(h) /\ UNCHANGED lock_idle
    \/ Lk_reset(h) /\ UNCHANGED lock_idle
    \/ Lk_Release(h)

NextLocks ==
    \/ \E h \in Handlers : Lk_GetActions(h) /\ UNCHANGED lock_idle
    \/ \E h \in Handlers, checks \in BOOLEAN : Lk_SendObservations(h, checks) /\ UNCHANGED lock_idle
    \/ \E h \in Handlers : Lk_Ready(h) /\ UNCHANGED lock_idle
    \/ \E h \in Handlers : Lk_SendPolicyInstructions(h) /\ UNCHANGED lock_idle
    \/ \E h \in Handlers : Lk_step(h)

SpecLocks == Init /\ [][NextLocks]_vars

\* a thread that can run does run: each handler's next step is taken in the
\* end (the calls are MaxRPCs in all, so no lock is taken again and again
\* for ever); nothing makes a client send a call
SpecLocksFair == SpecLocks /\ \A h \in Handlers : WF_vars(Lk_step(h))

(* ----------------------- the RTC denoising loop ------------------------ *)

\* 2^23: a float32 has a significand of 24 bits, m in 2^23 .. 2^24 - 1
TwoTo23 == 8388608

RECURSIVE Pow2(_)
Pow2(e) == IF e = 0 THEN 1 ELSE 2 * Pow2(e - 1)

\* the binary long division of 1 by n, bit by bit until the quotient q has 24
\* bits, then rounded to nearest, ties to even: the float32 q * 2^-k
RECURSIVE float32_divide(_, _, _, _)
float32_divide(q, r, k, n) ==
    IF q >= TwoTo23
    THEN [m |-> IF 2 * r > n \/ (2 * r = n /\ q % 2 = 1) THEN q + 1 ELSE q, e |-> 0, k |-> k]
    ELSE IF 2 * r >= n
    THEN float32_divide(2 * q + 1, 2 * r - n, k + 1, n)
    ELSE float32_divide(2 * q, 2 * r, k + 1, n)

\* torch.tensor(-1.0 / num_steps, dtype=torch.float32), as its magnitude
float32_reciprocal(n) == float32_divide(1 \div n, 1 % n, 0, n)

\* torch.tensor(1.0, dtype=torch.float32) in units of 2^-k
float32_one(k) == [m |-> TwoTo23, e |-> k - 23, k |-> k]

\* the exact difference h * 2^e + l, with 0 <= l < 2^e, brought to a
\* significand of 24 bits (or to e = 0, where it is exact)
RECURSIVE float32_normalize(_, _, _)
float32_normalize(h, l, e) ==
    IF h >= TwoTo23 \/ e = 0 THEN [h |-> h, l |-> l, e |-> e]
    ELSE float32_normalize(2 * h + (l \div Pow2(e - 1)), l % Pow2(e - 1), e - 1)

\* round to nearest, ties to even
float32_round(x, k) ==
    IF x.e = 0 THEN [m |-> x.h, e |-> 0, k |-> k]
    ELSE LET half == Pow2(x.e - 1)
             m == IF x.l > half \/ (x.l = half /\ x.h % 2 = 1) THEN x.h + 1 ELSE x.h
         IN  IF m = 2 * TwoTo23 THEN [m |-> TwoTo23, e |-> x.e + 1, k |-> k]
             ELSE [m |-> m, e |-> x.e, k |-> k]

\* time_val += dt on float32 tensors: the exact sum of t and the negative
\* step d, rounded to float32
float32_iadd(t, d) ==
    IF t.e = 0 THEN [m |-> t.m - d.m, e |-> 0, k |-> t.k]
    ELSE LET a == d.m \div Pow2(t.e)
             b == d.m % Pow2(t.e)
             h == IF b = 0 THEN t.m - a ELSE t.m - a - 1
             l == IF b = 0 THEN 0 ELSE Pow2(t.e) - b
         IN  float32_round(float32_normalize(h, l, t.e), t.k)

\* time_val >= -dt / 2 (halving a float32 is exact)
time_val_not_below_half_step(t, d) == t.e >= 1 \/ 2 * t.m >= d.m

\* dt = torch.tensor(-1.0 / num_steps); x_t = noise; time_val = torch.tensor(1.0)
Denoise_start(n) ==
    /\ denoise_pc = "idle"
    /\ num_steps' = n
    /\ dt' = float32_reciprocal(n)
    /\ time_val' = float32_one(float32_reciprocal(n).k)
    /\ v_t' = NoTensor
    /\ iterations' = 0
    /\ denoise_pc' = "loop"

\* one iteration of while time_val >= -dt / 2: v_t is computed by
\* rtc_processor.denoise_step at time=time_val, then x_t += dt * v_t and
\* time_val += dt
Denoise_step ==
    /\ denoise_pc = "loop"
    /\ time_val_not_below_half_step(time_val, dt)
    /\ v_t' = time_val
    /\ iterations' = iterations + 1
    /\ time_val' = float32_iadd(time_val, dt)
    /\ UNCHANGED <<num_steps, dt, denoise_pc>>

\* the condition of the while is false: actions = x_t
Denoise_exit ==
    /\ denoise_pc = "loop"
    /\ ~time_val_not_below_half_step(time_val, dt)
    /\ denoise_pc' = "exited"
    /\ UNCHANGED <<num_steps, dt, time_val, v_t, iterations>>

\* return chunk; the next call starts from new tensors
Denoise_return ==
    /\ denoise_pc = "exited"
    /\ denoise_pc' = "idle"
    /\ num_steps' = 0
    /\ dt' = NoTensor
    /\ time_val' = NoTensor
    /\ v_t' = NoTensor
    /\ iterations' = 0

NumSteps == 1..MaxNumSteps \cup {LargeNumSteps}

NextDenoise ==
    \/ \E n \in NumSteps :
           Denoise_start(n) /\ UNCHANGED <<threads, timing, setup, inference, teleop, pad, locks>>
    \/ Denoise_step /\ UNCHANGED <<threads, timing, setup, inference, teleop, pad, locks>>
    \/ Denoise_exit /\ UNCHANGED <<threads, timing, setup, inference, teleop, pad, locks>>
    \/ Denoise_return /\ UNCHANGED <<threads, timing, setup, inference, teleop, pad, locks>>

SpecDenoise == Init /\ [][NextDenoise]_vars

(* ------------- the pool and what it took since the last reset ---------- *)

\* the steps that take nothing from a queue and reset nothing
reset_idle == <<timing, setup, inference, teleop, pad, locks, denoise>>

\* what a step that takes or resets leaves alone
reset_same == <<timing, setup, snapshots, teleop, pad, locks, denoise>>

\* handler h took the observation o from a queue
Taken(o) == taken_since_reset' = taken_since_reset \cup {o.timestep}

NextReset ==
    \/ \E h \in Handlers : Release(h) /\ UNCHANGED reset_idle
    \/ \E h \in Handlers : NoneDone /\ Ready_reset_queue(h) /\ UNCHANGED reset_idle
    \/ \E h \in Handlers :
           NoneDone /\ Ready_reset_predicted(h) /\ taken_since_reset' = {} /\ UNCHANGED reset_same
    \/ \E h \in Handlers, apc \in 1..chunk_size :
           NoneDone /\ SendPolicyInstructions(h, apc) /\ UNCHANGED reset_idle
    \/ \E h \in Handlers, k \in Timesteps, mg \in BOOLEAN, similar \in BOOLEAN :
           NoneDone /\ SendObservations_enqueue(h, k, mg, similar) /\ UNCHANGED reset_idle
    \/ \E h \in Handlers : NoneDone /\ SendObservations_get_nowait(h) /\ UNCHANGED reset_idle
    \/ \E h \in Handlers : NoneDone /\ SendObservations_put(h) /\ UNCHANGED reset_idle
    \/ \E h \in Handlers : NoneDone /\ SendObservations_put_wakes(h) /\ UNCHANGED reset_idle
    \/ \E h \in Handlers :
           /\ NoneDone /\ GetActions_get(h)
           /\ IF observation_queue # <<>> THEN Taken(Head(observation_queue))
              ELSE UNCHANGED taken_since_reset
           /\ UNCHANGED reset_same
    \/ \E h \in Handlers :
           NoneDone /\ GetActions_get_wakes(h) /\ Taken(Head(QueueOf(h))) /\ UNCHANGED reset_same
    \/ \E h \in Handlers : NoneDone /\ GetActions_timeout(h) /\ UNCHANGED reset_idle
    \/ \E h \in Handlers : NoneDone /\ GetActions_add(h) /\ UNCHANGED reset_idle
    \/ \E h \in Handlers, ok \in BOOLEAN : NoneDone /\ predict_prepare(h, ok) /\ UNCHANGED reset_idle
    \/ \E h \in Handlers, ok \in BOOLEAN : NoneDone /\ predict_infer(h, ok) /\ UNCHANGED reset_idle

SpecReset == Init /\ [][NextReset]_vars

(* ------------------- stop, Ready and the instructions ------------------ *)

\* mutant of running: the property ignores the shutdown event
running_always(shutdown) == TRUE

\* PolicyServer.running: return not self.shutdown_event.is_set()
running(shutdown) == ~shutdown

\* what stop, Ready and SendPolicyInstructions leave alone
stop_idle == <<timing, last_call, inference, teleop, pad, locks, denoise>>

\* stop(), called by the thread that owns the server: self._reset_server()
stop ==
    /\ shutdown_event' = TRUE
    /\ observation_queue' = <<>>
    /\ predicted_timesteps' = reset_predicted_timesteps(predicted_timesteps)
    /\ rtc_action_queue' = reset_rtc_action_queue(rtc_action_queue, rtc_config)
    /\ UNCHANGED <<old_queues, last_processed_obs, policy, actions_per_chunk, rpc, pc, obs,
                   resp, flags, history, rtc_config, device, policy_type, lerobot_features,
                   rtc_processor>>

\* SendPolicyInstructions on a pool thread, from the test of self.running to
\* its return or to the exception that leaves it; load_ok tells whether
\* from_pretrained, to(device) and make_pre_post_processors succeed
Stop_SendPolicyInstructions(h, request, load_ok) ==
    /\ Free(h)
    /\ IF ~running(shutdown_event)
       THEN /\ StartReturn(h, "SendPolicyInstructions", Empty)
            /\ UNCHANGED <<policy, actions_per_chunk, rtc_same>>
       ELSE IF request.policy_type \notin SUPPORTED_POLICIES
       THEN /\ StartReturn(h, "SendPolicyInstructions", Raised)
            /\ UNCHANGED <<policy, actions_per_chunk, rtc_same>>
       ELSE /\ rtc_config' = request.rtc_config
            /\ device' = request.device
            /\ policy_type' = request.policy_type
            /\ lerobot_features' = request.lerobot_features
            /\ actions_per_chunk' = request.actions_per_chunk
            /\ IF ~load_ok
               THEN /\ StartReturn(h, "SendPolicyInstructions", Raised)
                    /\ UNCHANGED <<policy, rtc_processor, rtc_action_queue>>
               ELSE /\ StartReturn(h, "SendPolicyInstructions", Empty)
                    /\ policy' = "loaded"
                    /\ IF request.rtc_config.present /\ request.rtc_config.enabled
                       THEN /\ rtc_processor' = "RTCProcessor"
                            /\ rtc_action_queue' = ActionQueue(request.rtc_config)
                       ELSE /\ rtc_processor' = "None"
                            /\ rtc_action_queue' = NoActionQueue
    /\ UNCHANGED <<observation_queue, old_queues, predicted_timesteps, last_processed_obs,
                   shutdown_event, obs, flags, history>>

NextStop ==
    \/ \E h \in Handlers : Release(h) /\ UNCHANGED <<setup, stop_idle>>
    \/ \E h \in Handlers : NoneDone /\ Ready_reset_queue(h) /\ UNCHANGED <<setup, stop_idle>>
    \/ \E h \in Handlers :
           /\ NoneDone /\ Ready_reset_predicted(h)
           /\ rtc_action_queue' = reset_rtc_action_queue(rtc_action_queue, rtc_config)
           /\ UNCHANGED <<rtc_config, device, policy_type, lerobot_features, rtc_processor,
                          stop_idle>>
    \/ \E h \in Handlers, request \in Requests, load_ok \in BOOLEAN :
           NoneDone /\ Stop_SendPolicyInstructions(h, request, load_ok) /\ UNCHANGED stop_idle
    \/ NoneDone /\ stop /\ UNCHANGED stop_idle

SpecStop == Init /\ [][NextStop]_vars

(* ------------------------------- claims -------------------------------- *)

\* C1: in every reachable state, under any interleaving of the handlers, the
\* observation inbox (and every replaced queue object still in use) holds at
\* most one observation.
InboxHoldsAtMostOne ==
    /\ Len(observation_queue) <= 1
    /\ \A r \in old_queues : Len(r.items) <= 1

\* C1, witness: the inbox is full and a second handler that accepted its
\* observation is blocked inside put
InboxFullAndPutBlocked ==
    /\ Len(observation_queue) = 1
    /\ \E h \in Handlers : pc[h] = "so_wait" /\ ~OnOld(h)

\* C2: at no time are two executions of _predict_action_chunk in progress.
AtMostOneInference == Cardinality(Inferring) <= 1

FreshestWins ==
    \A h \in Handlers :
        (rpc[h] = "SendObservations" /\ pc[h] = "done"
            /\ flags[h].accepted /\ flags[h].saw_full)
        => (flags[h].stored /\ observation_queue = <<obs[h]>>)

\* C5: an observation sent with must_go = True that has entered the inbox is
\* served: it leaves the inbox only into the hands of a GetActions handler
\* (a reset of the server apart).
MustGoIsServed ==
    [][(observation_queue # <<>> /\ Head(observation_queue).must_go
            /\ observation_queue' # observation_queue)
        => \/ shutdown_event'
           \/ \E h \in Handlers :
                 rpc'[h] = "GetActions" /\ obs'[h] = Head(observation_queue)]_vars

\* C6: the admission decision for an observation o equals
\* o.must_go OR no observation has ever been processed OR
\* (o.timestep not in predicted_timesteps AND o not similar to the last
\* processed observation).
AdmissionDecision ==
    [][\A h \in Handlers :
          (rpc[h] = "idle" /\ rpc'[h] = "SendObservations")
          => (flags'[h].accepted <=>
                 \/ obs'[h].must_go
                 \/ last_processed_obs = None
                 \/ (obs'[h].timestep \notin predicted_timesteps /\ ~flags'[h].similar))]_vars

\* C6, witness: a must_go observation whose timestep is already predicted and
\* which is similar to the last processed observation has been accepted
MustGoBypassedBothFilters ==
    \E h \in Handlers :
        /\ rpc[h] = "SendObservations"
        /\ flags[h].accepted
        /\ obs[h].must_go
        /\ flags[h].similar
        /\ obs[h].timestep \in predicted_timesteps
        /\ last_processed_obs # None

\* C7: timestep monotonicity: the timesteps of the observations processed by
\* the engine are strictly increasing.
EngineTimestepsIncrease ==
    \A i, j \in DOMAIN engine_log :
        i < j => engine_log[i].timestep < engine_log[j].timestep

\* C8: dedup: of the observations pushed with the same timestep and without
\* must_go, only the first reaches the inference engine.
OnlyFirstPushReachesEngine ==
    \A i \in DOMAIN engine_log :
        ~engine_log[i].must_go => engine_log[i].id = first_plain[engine_log[i].timestep]

\* C9: a chunk returned by GetActions for an observation with timestamp t0
\* and timestep k0 has actions_per_chunk actions (actions_per_chunk <=
\* chunk_size), the i-th with timestep k0 + i and timestamp
\* t0 + i * environment_dt, so consecutive timesteps differ by 1 and
\* consecutive timestamps by environment_dt.
ChunkTiming ==
    \A h \in Handlers :
        (rpc[h] = "GetActions" /\ pc[h] = "done" /\ resp[h].kind = "actions")
        => LET chunk == resp[h].data
           IN  /\ actions_per_chunk <= chunk_size => Len(chunk) = actions_per_chunk
               /\ \A i \in 0..(Len(chunk) - 1) :
                      /\ chunk[i + 1].timestep = obs[h].timestep + i
                      /\ chunk[i + 1].timestamp = get_timestamp(obs[h]) + i * environment_dt
               /\ \A i \in 1..(Len(chunk) - 1) :
                      /\ chunk[i + 1].timestep - chunk[i].timestep = 1
                      /\ chunk[i + 1].timestamp - chunk[i].timestamp = environment_dt

\* C9, witness: GetActions returns a chunk of several actions that is shorter
\* than the policy's chunk, for an observation with a non-zero timestep
SlicedChunkReturned ==
    \E h \in Handlers :
        /\ rpc[h] = "GetActions" /\ pc[h] = "done" /\ resp[h].kind = "actions"
        /\ 1 < Len(resp[h].data) /\ Len(resp[h].data) < chunk_size
        /\ obs[h].timestep > 0

\* C10: GetActions never propagates a failure: whether the inbox stayed empty
\* or a step of the inference raised, it returns an empty response (or the
\* chunk), never an error.
GetActionsNeverRaises ==
    \A h \in Handlers :
        (rpc[h] = "GetActions" /\ pc[h] = "done") => resp[h].kind \in {"empty", "actions"}

\* C10, witness: after an inference that raised, a GetActions call on a later
\* observation returns its chunk
ServedAfterFailure ==
    \E h \in Handlers :
        /\ rpc[h] = "GetActions" /\ pc[h] = "done" /\ resp[h].kind = "actions"
        /\ \E i \in DOMAIN engine_log :
              engine_log[i].outcome = "raised" /\ engine_log[i].id < obs[h].id

\* the timesteps of the observations whose inference has failed
FailedTimesteps(log) == {log[i].timestep : i \in {j \in DOMAIN log : log[j].outcome = "raised"}}

ResponseNeverBeforeLatency ==
    /\ ga_phase = "get" => ga_now <= obs_queue_timeout
    /\ ga_phase = "done" => (ga_waited <= obs_queue_timeout /\ ga_now >= inference_latency)

\* C12, amended: every GetActions call waits at most obs_queue_timeout for an
\* observation, and a response that carries an action chunk comes no earlier
\* than inference_latency after the call started; the empty response of a
\* call whose inference raised comes without that delay.
ChunkNeverBeforeLatency ==
    /\ ga_phase = "get" => ga_now <= obs_queue_timeout
    /\ ga_phase = "done" =>
          /\ ga_waited <= obs_queue_timeout
          /\ ga_resp = "actions" => ga_now >= inference_latency

\* C12, witness: a call that waited for its observation and whose inference
\* was shorter than inference_latency returns its chunk after the sleep
ChunkReturnedAfterSleep ==
    /\ ga_phase = "done"
    /\ ga_resp = "actions"
    /\ 0 < ga_waited
    /\ ga_now = inference_latency

\* C13: when Ready returns, the inbox is empty, predicted_timesteps is empty,
\* the RTC action queue (if there is one) has nothing pending and no
\* leftover, and the shutdown flag is clear.
ReadyLeavesStateReset ==
    \A h \in Handlers :
        (rpc[h] = "Ready" /\ pc[h] = "done")
        => /\ observation_queue = <<>>
           /\ predicted_timesteps = {}
           /\ rtc_action_queue.pending = <<>> /\ rtc_action_queue.leftover = <<>>
           /\ ~shutdown_event

\* the state of the server that the calls of a client act on
configuration == <<policy, actions_per_chunk, rtc_config, device, policy_type,
                   lerobot_features, rtc_processor, rtc_action_queue>>
server_state == <<observation_queue, predicted_timesteps, last_processed_obs,
                  shutdown_event, configuration>>

\* C14: Ready is idempotent: a Ready call that directly follows a Ready call
\* leaves the state of the server exactly as the first one left it.
ReadyIdempotent ==
    [][(last_call.method = "Ready" /\ last_call'.method = "Ready")
        => UNCHANGED server_state]_vars

\* C14, witness: a Ready call has just reset a server that had an
\* observation processed, a policy loaded and RTC enabled
ReadyAfterWork ==
    /\ last_call.method = "Ready"
    /\ last_processed_obs # None
    /\ rtc_action_queue.exists
    /\ observation_queue = <<>> /\ predicted_timesteps = {}

\* C15: when Ready returns, no GetActions handler is still blocked in get on
\* the inbox that Ready discarded.
ReadyUnblocksGetActions ==
    \A h \in Handlers :
        (rpc[h] = "Ready" /\ pc[h] = "done")
        => \A g \in Handlers : pc[g] = "ga_wait" => ~OnOld(g)

\* C16: GetActions takes an observation from the inbox and passes it to the
\* inference only once a SendPolicyInstructions has loaded a policy.
GetActionsInfersOnlyWhenConfigured ==
    \A h \in Handlers :
        (rpc[h] = "GetActions" /\ pc[h] \in {"ga_add", "predict_prepare", "predict_infer"})
        => policy # "none"

FailedLoadLeavesConfiguration ==
    [][(last_call'.method = "SendPolicyInstructions"
            /\ last_call'.request.policy_type \in SUPPORTED_POLICIES
            /\ last_call'.response = Raised)
        => UNCHANGED configuration]_vars

\* C19: after any sequence of SendPolicyInstructions and Ready calls, the
\* RTCProcessor and the ActionQueue exist together, and exist if and only if
\* the installed rtc_config has enabled = true.
RTCComponentsMatchConfig ==
    /\ (rtc_processor # "None") <=> rtc_action_queue.exists
    /\ rtc_action_queue.exists <=> (rtc_config.present /\ rtc_config.enabled)

\* C20: with RTC enabled, when an inference ends with real_delay = d > 0, the
\* actions GetActions delivers are processed_actions[d:]: the first d actions
\* of the chunk are not delivered.
DelayedActionsNotDelivered ==
    (last_call.method = "GetActions" /\ last_call.response.kind = "actions"
        /\ rtc_action_queue.exists /\ last_call.real_delay > 0)
    => LET delivered == last_call.response.data
           processed == processed_actions_of(original_actions_of(actions_per_chunk))
       IN  [i \in 1..Len(delivered) |-> delivered[i].action]
               = SubSeq(processed, last_call.real_delay + 1, Len(processed))

\* the last call was a GetActions whose inference ended with real_delay >=
\* chunk_size on a server with an ActionQueue
StaleCall(call) ==
    /\ call.method = "GetActions"
    /\ StaleInference(call.real_delay)

\* C21: a GetActions whose inference ends with real_delay >= chunk_size
\* returns an empty response and leaves pending and leftover of the
\* ActionQueue as they were; as long as no later inference has been merged,
\* whenever an observation is in the inbox, a GetActions whose inference is
\* on time returns a chunk.
StaleInferenceDiscarded ==
    /\ [][StaleCall(last_call') =>
              /\ last_call'.response = Empty
              /\ rtc_action_queue'.pending = rtc_action_queue.pending
              /\ rtc_action_queue'.leftover = rtc_action_queue.leftover]_vars
    /\ [](last_call.last_merge = "stale" /\ observation_queue # <<>> =>
              ENABLED (/\ Serial_GetActions(0, "returns")
                       /\ last_call'.response.kind = "actions"
                       /\ Len(last_call'.response.data) = actions_per_chunk))

\* C21 (witness): a stale inference has just been discarded on a server
\* whose ActionQueue holds the pending and leftover actions of an earlier
\* merge.
StaleInferenceAfterMerge ==
    /\ StaleCall(last_call)
    /\ rtc_action_queue.exists
    /\ rtc_action_queue.pending # <<>>
    /\ rtc_action_queue.leftover # <<>>

\* C22: every GetActions step that merges a chunk into the ActionQueue hands
\* merge an original_actions and a processed_actions of length chunk_size,
\* whatever actions_per_chunk <= chunk_size was configured.
MergeGetsFullChunk ==
    [][(/\ last_call'.method = "GetActions"
        /\ last_call'.response.kind = "actions"
        /\ rtc_action_queue.exists) =>
           LET original == original_actions_of(actions_per_chunk)
           IN  /\ Len(original) = chunk_size
               /\ Len(processed_actions_of(original)) = chunk_size]_vars

\* C23: no inference in progress has had the ActionQueue written to or
\* replaced by another handler between the action index it read and its own
\* merge.
ActionQueueSingleWriter == \A h \in Handlers : snapshots[h] # "overwritten"

\* every stick and trigger axis is below the deadzone, the D-pad is centred
Untouched(reading) ==
    /\ \A a \in Axes : Abs(reading.axis[a]) < deadzone
    /\ reading.dpad_x = 0
    /\ reading.dpad_y = 0

\* C24: in the hybrid loop, whenever the right stick is deflected beyond the
\* deadzone on an axis, the velocity of that axis in the action sent to the
\* robot in this iteration is not zero.
HybridBaseFollowsSticks ==
    /\ Abs(controller.axis["ry"]) >= deadzone => hybrid_action.base["x.vel"] # 0
    /\ Abs(controller.axis["rx"]) >= deadzone => hybrid_action.base["theta.vel"] # 0

\* C25: after a get_action call made with untouched controls the base
\* velocities returned are 0, and, if it is not the first call, the joint
\* targets returned are those the call before returned.
UntouchedControlsNoMotion ==
    (ncalls > 0 /\ Untouched(controller)) =>
        /\ \A k \in BaseKeys : xbox_action.base[k] = 0
        /\ ncalls > 1 => xbox_action.arm = previous_action.arm

\* C26: an iteration that reads a press of B while the emergency stop is off
\* turns it on; while it is on every action sent has x.vel = y.vel =
\* theta.vel = 0; and it stays on through every iteration that reads no new
\* press of B, in particular while B is kept down.
EmergencyStopLatched ==
    /\ [](emergency_stopped => base_action = ZeroVelocities)
    /\ [][(~emergency_stopped /\ controller_running' /\ b_event' = "press")
              => emergency_stopped']_vars
    /\ [][(emergency_stopped /\ b_event' # "press") => emergency_stopped']_vars

\* C27: no SendObservations handler whose observation was accepted is
\* blocked inside put, and none has left with the Empty raised by
\* get_nowait, whatever the other SendObservations and GetActions handlers do.
AcceptedEnqueueCompletes ==
    \A h \in Handlers :
        (rpc[h] = "SendObservations" /\ flags[h].accepted)
        => (pc[h] # "so_wait" /\ ~(pc[h] = "done" /\ resp[h] = Raised))

\* the positions at which a handler is inside a method of a queue object
InsideQueue == {"get_mutex", "get", "get_wait", "full_mutex", "full", "get_nowait_mutex",
                "get_nowait", "put_mutex", "put", "put_wait"}

\* the positions at which a handler waits for a lock to be free
Acquiring == {"get_mutex", "full_mutex", "get_nowait_mutex", "put_mutex", "add_lock",
              "sanity_lock", "reset_lock"}

HoldsMutex(h) == \E q \in 1..Len(queue_objects) : queue_objects[q].mutex = h

\* C28: the lock discipline is deadlock-free. No handler acquires the lock of
\* the predicted timesteps while it holds the mutex of a queue object; no
\* handler is inside a method of the inbox (waiting for its mutex, holding
\* it, or waiting on one of its conditions) while it holds the lock of the
\* predicted timesteps; a handler that holds a lock can always take the step
\* that releases it; and so, under every interleaving of SendObservations,
\* GetActions and Ready handlers, a handler that waits for a lock gets it.
LockDisciplineDeadlockFree ==
    /\ [](\A h \in Handlers :
            /\ pc[h] \in {"add_lock", "sanity_lock", "reset_lock"} => ~HoldsMutex(h)
            /\ predicted_timesteps_lock = h => ~HoldsMutex(h) /\ pc[h] \notin InsideQueue
            /\ (predicted_timesteps_lock = h \/ HoldsMutex(h)) => ENABLED Lk_step(h))
    /\ \A h \in Handlers : (pc[h] \in Acquiring) ~> (pc[h] \notin Acquiring)

\* C28, witness: a GetActions handler that took an observation waits for the
\* lock of the predicted timesteps, which a SendObservations handler holds in
\* _obs_sanity_checks, after a Ready replaced the inbox
LockContended ==
    \E h, g \in Handlers :
        /\ rpc[h] = "GetActions" /\ pc[h] = "add_lock"
        /\ rpc[g] = "SendObservations" /\ pc[g] = "sanity"
        /\ predicted_timesteps_lock = g
        /\ inbox > 1

\* C30: every GetActions call returns in the end, with a chunk or with an
\* empty response, whatever the other handlers do (the model call is a step
\* that ends): the call leaves its wait on the inbox when the timeout has
\* passed and is never held for ever by a lock or by the inbox.
GetActionsReturns ==
    /\ [](\A h \in Handlers :
            rpc[h] = "GetActions" /\ pc[h] = "done" => resp[h].kind \in {"actions", "empty"})
    /\ \A h \in Handlers :
           (rpc[h] = "GetActions" /\ pc[h] # "done") ~> (rpc[h] = "GetActions" /\ pc[h] = "done")

\* C30, witness: a GetActions call whose wait on the inbox expired has
\* returned the empty response while another handler is blocked inside put
GetActionsTimedOut ==
    \E h, g \in Handlers :
        /\ rpc[h] = "GetActions" /\ pc[h] = "done" /\ resp[h] = Empty /\ expired[h]
        /\ rpc[g] = "SendObservations" /\ pc[g] = "put_wait"

\* C29: the RTC denoising loop ends after exactly num_steps iterations, for
\* every num_steps >= 1: it starts at t = 1 with dt = -1/num_steps and is
\* left when t < -dt/2; in each iteration the velocity is computed at the
\* current t, before x_t and t are advanced, so the first velocity is
\* computed at t = 1 and each one at the t the iteration before left.
DenoiseLoopExactSteps ==
    /\ [](denoise_pc = "exited" => iterations = num_steps)
    /\ [][denoise_pc = "loop" /\ iterations' = iterations + 1
           => v_t' = time_val /\ (iterations = 0 => v_t' = float32_one(dt.k))]_vars

PredictedOnlyTakenSinceReset == predicted_timesteps \subseteq taken_since_reset

\* C33: last_processed_obs is updated as soon as the preprocessing of an
\* observation has succeeded, before the model runs. A GetActions that takes
\* an observation always leaves its timestep in predicted_timesteps; when
\* the preparation or the preprocessing fails, last_processed_obs is
\* unchanged and the response is empty; in every other case, also when the
\* inference, the postprocessing or the merge fails (and the response is
\* empty), the observation taken is the new last_processed_obs.
LastProcessedSetBeforeInference ==
    [][\A real_delay \in 0..MaxDelay, outcome \in {"returns", "prepare_raises", "infer_raises"} :
           (observation_queue # <<>> /\ Serial_GetActions(real_delay, outcome)) =>
               LET o == Head(observation_queue)
               IN  /\ o.timestep \in predicted_timesteps'
                   /\ IF policy = "none" \/ outcome = "prepare_raises"
                      THEN /\ last_processed_obs' = last_processed_obs
                           /\ last_call'.response = Empty
                      ELSE /\ last_processed_obs' = o
                           /\ (outcome = "infer_raises" \/ StaleCall(last_call'))
                              => last_call'.response = Empty]_vars

\* C33, witness: the merge of an inference has failed, the response was
\* empty, and the observation of that inference is the reference of the
\* similarity filter, its timestep among the predicted ones
FailedObservationIsReference ==
    /\ StaleCall(last_call)
    /\ last_call.response = Empty
    /\ last_processed_obs # None
    /\ last_processed_obs.id = nsent
    /\ last_processed_obs.timestep \in predicted_timesteps

\* C34: a SendObservations call whose observation is filtered out (no
\* must_go, an observation was processed before, and the timestep is among
\* the predicted ones or the observation is similar to the last processed
\* one) returns Empty and leaves the inbox, predicted_timesteps and
\* last_processed_obs as they were; no step of a SendObservations call,
\* accepted or not, changes predicted_timesteps or last_processed_obs; and
\* predicted_timesteps changes only in the add of a GetActions and in the
\* reset of a Ready.
SendObservationsFrame ==
    /\ [][\A h \in Handlers :
              (rpc'[h] = "SendObservations" /\ pc'[h] # pc[h]) =>
                  /\ predicted_timesteps' = predicted_timesteps
                  /\ last_processed_obs' = last_processed_obs
                  /\ (/\ rpc[h] = "idle"
                      /\ ~obs'[h].must_go
                      /\ last_processed_obs # None
                      /\ (obs'[h].timestep \in predicted_timesteps \/ flags'[h].similar))
                     => /\ ~flags'[h].accepted
                        /\ pc'[h] = "done" /\ resp'[h] = Empty
                        /\ observation_queue' = observation_queue
                        /\ old_queues' = old_queues]_vars
    /\ [][predicted_timesteps' # predicted_timesteps =>
              \E h \in Handlers :
                  \/ rpc[h] = "GetActions" /\ pc[h] = "ga_add" /\ pc'[h] # pc[h]
                  \/ rpc[h] = "Ready" /\ pc[h] = "r_predicted" /\ pc'[h] # pc[h]]_vars

\* C34, witness: an observation has been filtered out because its timestep
\* is among the predicted ones, while a GetActions handler waits on the empty
\* inbox
FilteredWhileGetActionsWaits ==
    \E h, g \in Handlers :
        /\ rpc[h] = "SendObservations" /\ pc[h] = "done" /\ ~flags[h].accepted
        /\ ~flags[h].similar
        /\ obs[h].timestep \in predicted_timesteps
        /\ last_processed_obs # None
        /\ rpc[g] = "GetActions" /\ pc[g] = "ga_wait"
        /\ observation_queue = <<>>

\* the configuration fields SendPolicyInstructions installs
installed == <<policy, actions_per_chunk, rtc_config, device, policy_type, lerobot_features,
               rtc_processor, rtc_action_queue.exists>>

teleoperator == <<_is_connected, joystick_object, pygame, pygame_initialized, xbox>>

\* C36: in any sequence of connect / disconnect / get_action calls, is_connected
\* is true exactly when the last of connect / disconnect to return was a
\* connect; a connect made on a connected object raises
\* DeviceAlreadyConnectedError, a disconnect or get_action made on a
\* disconnected object raises DeviceNotConnectedError, and a call that fails
\* so leaves every field of the object as it was
ConnectionStateMachine ==
    /\ [](is_connected(_is_connected, joystick_object) <=> last_successful = "connect")
    /\ [][nconn' # nconn /\ called' = "connect"
            /\ is_connected(_is_connected, joystick_object)
            => raised' = "DeviceAlreadyConnectedError" /\ UNCHANGED teleoperator]_vars
    /\ [][nconn' # nconn /\ called' \in {"disconnect", "get_action"}
            /\ ~is_connected(_is_connected, joystick_object)
            => raised' = "DeviceNotConnectedError" /\ UNCHANGED teleoperator]_vars
    /\ [][raised' \in {"DeviceAlreadyConnectedError", "DeviceNotConnectedError"}
            => UNCHANGED teleoperator]_vars

\* C36, witness: get_action has just raised DeviceNotConnectedError on an
\* object that was connected, initialized its arm and was disconnected
GetActionRaisedAfterDisconnect ==
    /\ called = "get_action"
    /\ raised = "DeviceNotConnectedError"
    /\ last_successful = "disconnect"
    /\ xbox.initialized

StopSentAfterLoopLeft ==
    /\ [][stop_pending /\ actions_sent' # actions_sent
            => base_action' = ZeroVelocities]_vars
    /\ [](main_pc = "loop" => ~stop_pending)
    /\ [](robot_disconnected => actions_sent > 0 /\ base_action = ZeroVelocities)

\* C38, witness: one action was sent, then robot.send_action raised in an
\* iteration with the left stick pushed forward and no emergency stop; the
\* stop was the next action sent and robot.disconnect() was called
StoppedAfterException ==
    /\ robot_disconnected
    /\ left_by = "exception"
    /\ actions_sent = 2
    /\ ~emergency_stopped
    /\ analog_state["ABS_Y"] = -AxisUnit

=============================================================================
